---------------------------- MODULE Spec2Model ----------------------------
(***************************************************************************)
(* ChairChart: the seat geometry engine (utils/seatGeometry.ts), the        *)
(* viewport transform engine (utils/canvasTransforms.ts) and the plan      *)
(* store (store/plan-store.ts).                                            *)
(*                                                                         *)
(* Numbers.  The program computes with IEEE doubles; the model computes    *)
(* with exact rationals <<n, d>> (d > 0, lowest terms).  Angles are kept   *)
(* in degrees: the model's angle a stands for the program's a * PI / 180   *)
(* radians, so PI/2 is 90 and PI is 180.  cos and sin are exact on the     *)
(* multiples of 90 degrees, which is what the model rotates by.            *)
(***************************************************************************)
EXTENDS Integers, Sequences, FiniteSets, TLC

VARIABLES
    table,      \* the Table handed to getSeatPositions or getTableBounds
    seatCall,   \* "idle" | "returned" | "threw" | "bounds": the call's position
    seats,      \* the SeatPosition[] the call returned (<<>> before, and on a throw)
    tableBounds, \* the box getTableBounds returned (<<>> before)
    view,       \* the ViewTransform the caller holds (currentTransform)
    viewOp,     \* the transform function applied to it ("idle" before)
    viewArg,    \* that call's other arguments
    viewOut,    \* that call's result
    tables,            \* the plan store's tables
    selectedTableIds,  \* the plan store's selectedTableIds
    idsIssued,         \* how many ids generateTableId has handed out
    planCall,          \* the store action called last, with its id argument
    drawn,        \* where TableNode drew each seat (<<>> before a render)
    zoomAnimRef,  \* CanvasStage's zoomAnimRef.current.id (Null when none)
    raf,          \* the browser's animation-frame callbacks and ids handed out
    stage,        \* CanvasStage's own state: the panning flags, mounted
    anim,         \* history: the view animation started last
    stageLog      \* history: the CanvasStage event handled last, and counts

seatVars == <<table, seatCall, seats, tableBounds, drawn>>
viewVars == <<view, viewOp, viewArg, viewOut>>
planVars == <<tables, selectedTableIds, idsIssued, planCall>>
stageVars == <<zoomAnimRef, raf, stage, anim, stageLog>>
vars == <<table, seatCall, seats, tableBounds, view, viewOp, viewArg, viewOut,
          tables, selectedTableIds, idsIssued, planCall,
          drawn, zoomAnimRef, raf, stage, anim, stageLog>>

-----------------------------------------------------------------------------
(* Exact rational arithmetic, standing for the program's number type.      *)

(* An operator binds its arguments to their values (x \in {a}) before it    *)
(* computes with them, so that an argument is evaluated once.              *)

\* Euclid's algorithm.
RECURSIVE Gcd(_, _)
Gcd(a, b) ==
    IF b = 0 THEN a
    ELSE CHOOSE g \in {Gcd(x, y) : x \in {b}, y \in {a % b}} : TRUE

Abs(n) == IF n < 0 THEN -n ELSE n

\* n/d in lowest terms with a positive denominator (d # 0).
Frac(n, d) ==
    CHOOSE r \in {LET g == Gcd(Abs(x), Abs(y))
                       sign == IF y < 0 THEN -1 ELSE 1
                   IN  <<(sign * x) \div g, (sign * y) \div g>> :
                     x \in {n}, y \in {d}} : TRUE

Q(n) == <<n, 1>>

\* Common factors are divided out before multiplying, to keep the integers small.
QAdd(a, b) ==
    CHOOSE r \in {LET g == Gcd(x[2], y[2])
                   IN  Frac(x[1] * (y[2] \div g) + y[1] * (x[2] \div g),
                            (x[2] \div g) * y[2]) :
                     x \in {a}, y \in {b}} : TRUE
QNeg(a) == CHOOSE r \in {<<-x[1], x[2]>> : x \in {a}} : TRUE
QSub(a, b) == QAdd(a, QNeg(b))
QMul(a, b) ==
    CHOOSE r \in {LET g1 == Gcd(Abs(x[1]), y[2])
                       g2 == Gcd(Abs(y[1]), x[2])
                   IN  <<(x[1] \div g1) * (y[1] \div g2), (x[2] \div g2) * (y[2] \div g1)>> :
                     x \in {a}, y \in {b}} : TRUE
QDiv(a, b) ==
    QMul(a, CHOOSE r \in {IF x[1] < 0 THEN <<-x[2], -x[1]>> ELSE <<x[2], x[1]>> :
                              x \in {b}} : TRUE)
QLe(a, b) ==
    \E x \in {a}, y \in {b} :
        LET g == Gcd(x[2], y[2]) IN x[1] * (y[2] \div g) <= y[1] * (x[2] \div g)
QLt(a, b) ==
    \E x \in {a}, y \in {b} :
        LET g == Gcd(x[2], y[2]) IN x[1] * (y[2] \div g) < y[1] * (x[2] \div g)
QMin(a, b) == CHOOSE r \in {IF QLe(x, y) THEN x ELSE y : x \in {a}, y \in {b}} : TRUE
QMax(a, b) == CHOOSE r \in {IF QLe(x, y) THEN y ELSE x : x \in {a}, y \in {b}} : TRUE
QAbs(a) == CHOOSE r \in {<<Abs(x[1]), x[2]>> : x \in {a}} : TRUE

\* Math.floor, Math.ceil and Math.round (half rounds up), as integers.
QFloor(a) == a[1] \div a[2]
QCeil(a) == -((-a[1]) \div a[2])
QRound(a) == (2 * a[1] + a[2]) \div (2 * a[2])

Vec(x, y) == [x |-> x, y |-> y]

-----------------------------------------------------------------------------
(* Program constants.                                                      *)

offset == 30              \* distance of a seat from the table edge
DefaultCornerSeats == 2   \* default of getRectTableSeatPositions' cornerSeats
Undefined == -1           \* stands for the value undefined of cornerSeats
MinSeats == 1
MaxSeats == 20

-----------------------------------------------------------------------------
(* Rotation.  Math.cos and Math.sin of a multiple of 90 degrees.           *)

CosDeg(d) == CASE d % 360 = 0 -> 1 [] d % 360 = 90 -> 0
               [] d % 360 = 180 -> -1 [] d % 360 = 270 -> 0
SinDeg(d) == CASE d % 360 = 0 -> 0 [] d % 360 = 90 -> 1
               [] d % 360 = 180 -> 0 [] d % 360 = 270 -> -1

\* Mutant of rotatePoint: the rotation matrix is transposed.
rotatePoint_transposed(point, degrees) ==
    LET cos == Q(CosDeg(degrees))
        sin == Q(SinDeg(degrees))
    IN  Vec(QAdd(QMul(point.x, cos), QMul(point.y, sin)),
            QSub(QMul(point.y, cos), QMul(point.x, sin)))

rotatePoint(point, degrees) ==
    LET cos == Q(CosDeg(degrees))
        sin == Q(SinDeg(degrees))
    IN  Vec(QSub(QMul(point.x, cos), QMul(point.y, sin)),
            QAdd(QMul(point.x, sin), QMul(point.y, cos)))

\* A point given by radius and angle (degrees): Cartesian where cos and sin
\* are exact, and otherwise kept as the exact polar pair.
PolarPoint(r, deg) ==
    IF deg[2] = 1 /\ deg[1] % 90 = 0
    THEN Vec(QMul(Q(CosDeg(deg[1])), r), QMul(Q(SinDeg(deg[1])), r))
    ELSE [r |-> r, deg |-> Frac(deg[1] % (360 * deg[2]), deg[2])]

-----------------------------------------------------------------------------
(* Seat placement.                                                         *)

Seat(p, a, n) == [position |-> p, angle |-> a, seatNumber |-> n]

\* Mutant of PushSeat: the counter is read but never advanced.
PushSeat_noIncrement(acc, p, a) ==
    [positions |-> Append(acc.positions, Seat(p, a, acc.seatNumber)),
     seatNumber |-> acc.seatNumber]

\* positions.push({position, angle, seatNumber: seatNumber++})
PushSeat(acc, p, a) ==
    [positions |-> Append(acc.positions, Seat(p, a, acc.seatNumber)),
     seatNumber |-> acc.seatNumber + 1]

\* Mutant of PushAll: the loop ends one iteration early (i < n - 1).
RECURSIVE PushAll_stopsOneShort(_, _)
PushAll_stopsOneShort(acc, placements) ==
    IF Len(placements) <= 1 THEN acc
    ELSE PushAll_stopsOneShort(
             PushSeat(acc, Head(placements).position, Head(placements).angle),
             Tail(placements))

\* One for-loop of pushes: the placements in loop order.
RECURSIVE PushAll(_, _)
PushAll(acc, placements) ==
    IF placements = <<>> THEN acc
    ELSE PushAll(PushSeat(acc, Head(placements).position, Head(placements).angle),
                 Tail(placements))

\* t = n === 1 ? 0.5 : i / (n - 1)
EdgeT(i, n) == IF n = 1 THEN Frac(1, 2) ELSE Frac(i, n - 1)

\* Mutant of getRoundTableSeatPositions: the seats sit on the table edge.
getRoundTableSeatPositions_onEdge(seatCount, radius, rotation) ==
    LET angleStep == Frac(360, seatCount)
        seatRadius == radius
    IN  [k \in 1..seatCount |->
            LET i == k - 1
                angle == QAdd(QMul(Q(i), angleStep), Q(rotation))
            IN  Seat(PolarPoint(seatRadius, angle), QAdd(angle, Q(90)), i + 1)]

getRoundTableSeatPositions(seatCount, radius, rotation) ==
    LET angleStep == Frac(360, seatCount)
        seatRadius == QAdd(radius, Q(offset))
    IN  [k \in 1..seatCount |->
            LET i == k - 1
                angle == QAdd(QMul(Q(i), angleStep), Q(rotation))
            IN  Seat(PolarPoint(seatRadius, angle), QAdd(angle, Q(90)), i + 1)]

\* Mutant of distributeSeatsAroundPerimeter: the edge tests are strict (<), so
\* a seat whose distance is a corner goes to the edge that starts there.
distributeSeatsAroundPerimeter_cornerToNextEdge(seatCount, size, rotation) ==
    LET width == Q(size.width)
        height == Q(size.height)
        perimeter == QMul(Q(2), QAdd(width, height))
        seatSpacing == QDiv(perimeter, Q(seatCount))
        halfW == QDiv(width, Q(2))
        halfH == QDiv(height, Q(2))
        off == Q(offset)
    IN  [k \in 1..seatCount |->
            LET i == k - 1
                distance == QMul(Q(i), seatSpacing)
                xya ==
                    IF QLt(distance, width)
                    THEN <<QSub(distance, halfW), QSub(QNeg(halfH), off), 90>>
                    ELSE IF QLt(distance, QAdd(width, height))
                    THEN <<QAdd(halfW, off), QSub(QSub(distance, width), halfH), 180>>
                    ELSE IF QLt(distance, QAdd(QMul(Q(2), width), height))
                    THEN <<QSub(halfW, QSub(QSub(distance, width), height)),
                           QAdd(halfH, off), -90>>
                    ELSE <<QSub(QNeg(halfW), off),
                           QSub(halfH, QSub(QSub(distance, QMul(Q(2), width)), height)),
                           0>>
            IN  Seat(rotatePoint(Vec(xya[1], xya[2]), rotation),
                     Q(xya[3] + rotation), i + 1)]

distributeSeatsAroundPerimeter(seatCount, size, rotation) ==
    LET width == Q(size.width)
        height == Q(size.height)
        perimeter == QMul(Q(2), QAdd(width, height))
        seatSpacing == QDiv(perimeter, Q(seatCount))
        halfW == QDiv(width, Q(2))
        halfH == QDiv(height, Q(2))
        off == Q(offset)
    IN  [k \in 1..seatCount |->
            LET i == k - 1
                distance == QMul(Q(i), seatSpacing)
                xya ==
                    IF QLe(distance, width)
                    THEN <<QSub(distance, halfW), QSub(QNeg(halfH), off), 90>>
                    ELSE IF QLe(distance, QAdd(width, height))
                    THEN <<QAdd(halfW, off), QSub(QSub(distance, width), halfH), 180>>
                    ELSE IF QLe(distance, QAdd(QMul(Q(2), width), height))
                    THEN <<QSub(halfW, QSub(QSub(distance, width), height)),
                           QAdd(halfH, off), -90>>
                    ELSE <<QSub(QNeg(halfW), off),
                           QSub(halfH, QSub(QSub(distance, QMul(Q(2), width)), height)),
                           0>>
            IN  Seat(rotatePoint(Vec(xya[1], xya[2]), rotation),
                     Q(xya[3] + rotation), i + 1)]

\* The corner-priority branch of getRectTableSeatPositions, width >= height.
RectHorizontal(seatCount, size, rotation, actualCornerSeats) ==
    LET width == Q(size.width)
        height == Q(size.height)
        halfW == QDiv(width, Q(2))
        halfH == QDiv(height, Q(2))
        off == Q(offset)
        remainingSeats == seatCount - actualCornerSeats
        a0 == [positions |-> <<>>, seatNumber |-> 1]
        a1 == IF actualCornerSeats >= 1
              THEN PushSeat(a0, rotatePoint(Vec(QAdd(halfW, off), Q(0)), rotation),
                            Q(180 + rotation))
              ELSE a0
        a2 == IF actualCornerSeats >= 2
              THEN PushSeat(a1, rotatePoint(Vec(QSub(QNeg(halfW), off), Q(0)), rotation),
                            Q(0 + rotation))
              ELSE a1
        a3 == IF actualCornerSeats >= 3
              THEN PushSeat(a2, rotatePoint(Vec(halfW, QSub(QNeg(halfH), off)), rotation),
                            Q(90 + rotation))
              ELSE a2
        a4 == IF actualCornerSeats >= 4
              THEN PushSeat(a3, rotatePoint(Vec(QNeg(halfW), QSub(QNeg(halfH), off)), rotation),
                            Q(90 + rotation))
              ELSE a3
        topSeats == QCeil(Frac(remainingSeats, 2))
        bottomSeats == remainingSeats - topSeats
        topStartX == IF actualCornerSeats >= 4
                     THEN QAdd(QNeg(halfW), QDiv(width, Q(topSeats)))
                     ELSE QNeg(halfW)
        topEndX == IF actualCornerSeats >= 3
                   THEN QSub(halfW, QDiv(width, Q(topSeats)))
                   ELSE halfW
        top == [k \in 1..topSeats |->
                  LET t == EdgeT(k - 1, topSeats)
                      x == QAdd(topStartX, QMul(QSub(topEndX, topStartX), t))
                  IN  [position |-> rotatePoint(Vec(x, QSub(QNeg(halfH), off)), rotation),
                       angle |-> Q(90 + rotation)]]
        bottom == [k \in 1..bottomSeats |->
                     LET t == EdgeT(k - 1, bottomSeats)
                         x == QSub(halfW, QMul(width, t))
                     IN  [position |-> rotatePoint(Vec(x, QAdd(halfH, off)), rotation),
                          angle |-> Q(-90 + rotation)]]
    IN  PushAll(PushAll(a4, top), bottom).positions

\* The corner-priority branch of getRectTableSeatPositions, width < height.
RectVertical(seatCount, size, rotation, actualCornerSeats) ==
    LET width == Q(size.width)
        height == Q(size.height)
        halfW == QDiv(width, Q(2))
        halfH == QDiv(height, Q(2))
        off == Q(offset)
        remainingSeats == seatCount - actualCornerSeats
        a0 == [positions |-> <<>>, seatNumber |-> 1]
        a1 == IF actualCornerSeats >= 1
              THEN PushSeat(a0, rotatePoint(Vec(Q(0), QSub(QNeg(halfH), off)), rotation),
                            Q(90 + rotation))
              ELSE a0
        a2 == IF actualCornerSeats >= 2
              THEN PushSeat(a1, rotatePoint(Vec(Q(0), QAdd(halfH, off)), rotation),
                            Q(-90 + rotation))
              ELSE a1
        a3 == IF actualCornerSeats >= 3
              THEN PushSeat(a2, rotatePoint(Vec(QSub(QNeg(halfW), off), Q(0)), rotation),
                            Q(0 + rotation))
              ELSE a2
        a4 == IF actualCornerSeats >= 4
              THEN PushSeat(a3, rotatePoint(Vec(QAdd(halfW, off), Q(0)), rotation),
                            Q(180 + rotation))
              ELSE a3
        leftSeats == QCeil(Frac(remainingSeats, 2))
        rightSeats == remainingSeats - leftSeats
        left == [k \in 1..leftSeats |->
                   LET t == EdgeT(k - 1, leftSeats)
                       y == QSub(halfH, QMul(height, t))
                   IN  [position |-> rotatePoint(Vec(QSub(QNeg(halfW), off), y), rotation),
                        angle |-> Q(0 + rotation)]]
        right == [k \in 1..rightSeats |->
                    LET t == EdgeT(k - 1, rightSeats)
                        y == QAdd(QNeg(halfH), QMul(height, t))
                    IN  [position |-> rotatePoint(Vec(QAdd(halfW, off), y), rotation),
                         angle |-> Q(180 + rotation)]]
    IN  PushAll(PushAll(a4, left), right).positions

\* Mutant of getRectTableSeatPositions: the fallback test is !cornerSeats, so
\* cornerSeats = 0 falls back to the perimeter too.
getRectTableSeatPositions_zeroIsFalsy(seatCount, size, rotation, cornerSeatsArg) ==
    LET cornerSeats == IF cornerSeatsArg = Undefined THEN DefaultCornerSeats
                       ELSE cornerSeatsArg
    IN  IF seatCount <= 4 \/ cornerSeats = Undefined \/ cornerSeats = 0
        THEN distributeSeatsAroundPerimeter(seatCount, size, rotation)
        ELSE LET m == IF cornerSeats <= seatCount THEN cornerSeats ELSE seatCount
                 actualCornerSeats == IF m <= 4 THEN m ELSE 4
             IN  IF size.width >= size.height
                 THEN RectHorizontal(seatCount, size, rotation, actualCornerSeats)
                 ELSE RectVertical(seatCount, size, rotation, actualCornerSeats)

\* Mutant of getRectTableSeatPositions: the orientation test is
\* width > height, so a table as wide as high is laid out as a tall one.
getRectTableSeatPositions_tallOnTie(seatCount, size, rotation, cornerSeatsArg) ==
    LET cornerSeats == IF cornerSeatsArg = Undefined THEN DefaultCornerSeats
                       ELSE cornerSeatsArg
    IN  IF seatCount <= 4 \/ cornerSeats = Undefined
        THEN distributeSeatsAroundPerimeter(seatCount, size, rotation)
        ELSE LET m == IF cornerSeats <= seatCount THEN cornerSeats ELSE seatCount
                 actualCornerSeats == IF m <= 4 THEN m ELSE 4
             IN  IF size.width > size.height
                 THEN RectHorizontal(seatCount, size, rotation, actualCornerSeats)
                 ELSE RectVertical(seatCount, size, rotation, actualCornerSeats)

\* cornerSeatsArg is what the caller passes: a number, or Undefined, which the
\* parameter's default turns into DefaultCornerSeats before the body runs.
getRectTableSeatPositions(seatCount, size, rotation, cornerSeatsArg) ==
    LET cornerSeats == IF cornerSeatsArg = Undefined THEN DefaultCornerSeats
                       ELSE cornerSeatsArg
    IN  IF seatCount <= 4 \/ cornerSeats = Undefined
        THEN distributeSeatsAroundPerimeter(seatCount, size, rotation)
        ELSE LET m == IF cornerSeats <= seatCount THEN cornerSeats ELSE seatCount
                 actualCornerSeats == IF m <= 4 THEN m ELSE 4
             IN  IF size.width >= size.height
                 THEN RectHorizontal(seatCount, size, rotation, actualCornerSeats)
                 ELSE RectVertical(seatCount, size, rotation, actualCornerSeats)

\* Mutant of getSquareTableSeatPositions: the seats left over after the even
\* split go to the left, bottom and right sides instead of top, right, bottom.
getSquareTableSeatPositions_extrasFromLeft(seatCount, size, rotation) ==
    LET off == Q(offset)
        halfSize == QDiv(Q(size), Q(2))
        seatsPerSide == seatCount \div 4
        remainingSeats == seatCount % 4
        far == QAdd(halfSize, off)
        sides == <<
            [seats |-> seatsPerSide,
             startX |-> QNeg(halfSize), startY |-> QNeg(far),
             endX |-> halfSize, endY |-> QNeg(far), angle |-> 90],
            [seats |-> seatsPerSide + (IF remainingSeats > 2 THEN 1 ELSE 0),
             startX |-> far, startY |-> QNeg(halfSize),
             endX |-> far, endY |-> halfSize, angle |-> 180],
            [seats |-> seatsPerSide + (IF remainingSeats > 1 THEN 1 ELSE 0),
             startX |-> halfSize, startY |-> far,
             endX |-> QNeg(halfSize), endY |-> far, angle |-> -90],
            [seats |-> seatsPerSide + (IF remainingSeats > 0 THEN 1 ELSE 0),
             startX |-> QNeg(far), startY |-> halfSize,
             endX |-> QNeg(far), endY |-> QNeg(halfSize), angle |-> 0] >>
        SideSeats(side) ==
            [k \in 1..side.seats |->
                LET t == EdgeT(k - 1, side.seats)
                    x == QAdd(side.startX, QMul(QSub(side.endX, side.startX), t))
                    y == QAdd(side.startY, QMul(QSub(side.endY, side.startY), t))
                IN  [position |-> rotatePoint(Vec(x, y), rotation),
                     angle |-> Q(side.angle + rotation)]]
        a0 == [positions |-> <<>>, seatNumber |-> 1]
    IN  PushAll(PushAll(PushAll(PushAll(a0, SideSeats(sides[1])), SideSeats(sides[2])),
                        SideSeats(sides[3])), SideSeats(sides[4])).positions

getSquareTableSeatPositions(seatCount, size, rotation) ==
    LET off == Q(offset)
        halfSize == QDiv(Q(size), Q(2))
        seatsPerSide == seatCount \div 4
        remainingSeats == seatCount % 4
        far == QAdd(halfSize, off)
        sides == <<
            [seats |-> seatsPerSide + (IF remainingSeats > 0 THEN 1 ELSE 0),
             startX |-> QNeg(halfSize), startY |-> QNeg(far),
             endX |-> halfSize, endY |-> QNeg(far), angle |-> 90],
            [seats |-> seatsPerSide + (IF remainingSeats > 1 THEN 1 ELSE 0),
             startX |-> far, startY |-> QNeg(halfSize),
             endX |-> far, endY |-> halfSize, angle |-> 180],
            [seats |-> seatsPerSide + (IF remainingSeats > 2 THEN 1 ELSE 0),
             startX |-> halfSize, startY |-> far,
             endX |-> QNeg(halfSize), endY |-> far, angle |-> -90],
            [seats |-> seatsPerSide,
             startX |-> QNeg(far), startY |-> halfSize,
             endX |-> QNeg(far), endY |-> QNeg(halfSize), angle |-> 0] >>
        SideSeats(side) ==
            [k \in 1..side.seats |->
                LET t == EdgeT(k - 1, side.seats)
                    x == QAdd(side.startX, QMul(QSub(side.endX, side.startX), t))
                    y == QAdd(side.startY, QMul(QSub(side.endY, side.startY), t))
                IN  [position |-> rotatePoint(Vec(x, y), rotation),
                     angle |-> Q(side.angle + rotation)]]
        a0 == [positions |-> <<>>, seatNumber |-> 1]
    IN  PushAll(PushAll(PushAll(PushAll(a0, SideSeats(sides[1])), SideSeats(sides[2])),
                        SideSeats(sides[3])), SideSeats(sides[4])).positions

\* Math.min(...xs) and Math.max(...xs)
MathMin(xs) == CHOOSE m \in {xs[k] : k \in DOMAIN xs} : \A k \in DOMAIN xs : QLe(m, xs[k])
MathMax(xs) == CHOOSE m \in {xs[k] : k \in DOMAIN xs} : \A k \in DOMAIN xs : QLe(xs[k], m)

\* Mutant of getTableBounds: the corners are not rotated.
getTableBounds_unrotated(t) ==
    LET halfWidth == Frac(t.size.width, 2)
        halfHeight == Frac(t.size.height, 2)
        corners == << Vec(QNeg(halfWidth), QNeg(halfHeight)),
                      Vec(halfWidth, QNeg(halfHeight)),
                      Vec(halfWidth, halfHeight),
                      Vec(QNeg(halfWidth), halfHeight) >>
        xs == [k \in 1..4 |-> QAdd(corners[k].x, t.position.x)]
        ys == [k \in 1..4 |-> QAdd(corners[k].y, t.position.y)]
    IN  [min |-> Vec(MathMin(xs), MathMin(ys)),
         max |-> Vec(MathMax(xs), MathMax(ys))]

getTableBounds(t) ==
    LET halfWidth == Frac(t.size.width, 2)
        halfHeight == Frac(t.size.height, 2)
        corners == << Vec(QNeg(halfWidth), QNeg(halfHeight)),
                      Vec(halfWidth, QNeg(halfHeight)),
                      Vec(halfWidth, halfHeight),
                      Vec(QNeg(halfWidth), halfHeight) >>
        rotatedCorners == [k \in 1..4 |-> rotatePoint(corners[k], t.rotation)]
        xs == [k \in 1..4 |-> QAdd(rotatedCorners[k].x, t.position.x)]
        ys == [k \in 1..4 |-> QAdd(rotatedCorners[k].y, t.position.y)]
    IN  [min |-> Vec(MathMin(xs), MathMin(ys)),
         max |-> Vec(MathMax(xs), MathMax(ys))]

\* An optional gridSize argument the caller left out.
NoGridSize == <<>>

\* Mutant of snapToGrid: Math.floor in place of Math.round.
snapToGrid_floors(position, gridSizeArg) ==
    LET gridSize == IF gridSizeArg = NoGridSize THEN Q(20) ELSE gridSizeArg
    IN  Vec(QMul(Q(QFloor(QDiv(position.x, gridSize))), gridSize),
            QMul(Q(QFloor(QDiv(position.y, gridSize))), gridSize))

snapToGrid(position, gridSizeArg) ==
    LET gridSize == IF gridSizeArg = NoGridSize THEN Q(20) ELSE gridSizeArg
    IN  Vec(QMul(Q(QRound(QDiv(position.x, gridSize))), gridSize),
            QMul(Q(QRound(QDiv(position.y, gridSize))), gridSize))

\* seatConfig?.cornerSeats
CornerSeatsOf(t) == t.seatConfig

\* Mutant of getSeatPositions: the default branch lays the table out as round.
getSeatPositions_defaultRound(t) ==
    CASE t.shape = "rect" ->
            [threw |-> FALSE,
             value |-> getRectTableSeatPositions(t.seatCount, t.size, t.rotation,
                           CornerSeatsOf(t))]
      [] t.shape = "square" ->
            [threw |-> FALSE,
             value |-> getSquareTableSeatPositions(t.seatCount, t.size.width, t.rotation)]
      [] OTHER ->
            [threw |-> FALSE,
             value |-> getRoundTableSeatPositions(t.seatCount,
                           QDiv(Q(t.size.width), Q(2)), t.rotation)]

\* Mutant of getSeatPositions: a square is laid out on its height.
getSeatPositions_squareUsesHeight(t) ==
    CASE t.shape = "round" ->
            [threw |-> FALSE,
             value |-> getRoundTableSeatPositions(t.seatCount,
                           QDiv(Q(t.size.width), Q(2)), t.rotation)]
      [] t.shape = "rect" ->
            [threw |-> FALSE,
             value |-> getRectTableSeatPositions(t.seatCount, t.size, t.rotation,
                           CornerSeatsOf(t))]
      [] t.shape = "square" ->
            [threw |-> FALSE,
             value |-> getSquareTableSeatPositions(t.seatCount, t.size.height, t.rotation)]
      [] OTHER -> [threw |-> TRUE, value |-> <<>>]

\* [threw |-> TRUE] stands for the Error of the default branch.
getSeatPositions(t) ==
    CASE t.shape = "round" ->
            [threw |-> FALSE,
             value |-> getRoundTableSeatPositions(t.seatCount,
                           QDiv(Q(t.size.width), Q(2)), t.rotation)]
      [] t.shape = "rect" ->
            [threw |-> FALSE,
             value |-> getRectTableSeatPositions(t.seatCount, t.size, t.rotation,
                           CornerSeatsOf(t))]
      [] t.shape = "square" ->
            [threw |-> FALSE,
             value |-> getSquareTableSeatPositions(t.seatCount, t.size.width, t.rotation)]
      [] OTHER -> [threw |-> TRUE, value |-> <<>>]

-----------------------------------------------------------------------------
(* Rendering.  TableNode is a Konva Group at the table's position, turned  *)
(* by the table's rotation; each SeatNode is a child Group of it.          *)

\* p moved by d.  A polar point carries what it was moved by as its centre.
Translate(d, p) ==
    IF "r" \in DOMAIN p
    THEN LET c == IF "c" \in DOMAIN p THEN p.c ELSE Vec(Q(0), Q(0))
         IN  [r |-> p.r, deg |-> p.deg, c |-> Vec(QAdd(d.x, c.x), QAdd(d.y, c.y))]
    ELSE Vec(QAdd(d.x, p.x), QAdd(d.y, p.y))

\* p turned about the origin by a multiple of 90 degrees.
Rotate(p, degrees) ==
    IF "r" \in DOMAIN p
    THEN LET c == IF "c" \in DOMAIN p THEN p.c ELSE Vec(Q(0), Q(0))
         IN  [r |-> p.r,
              deg |-> Frac((p.deg[1] + degrees * p.deg[2]) % (360 * p.deg[2]), p.deg[2]),
              c |-> rotatePoint(c, degrees)]
    ELSE rotatePoint(p, degrees)

\* Where a Konva Group with the given x, y and rotation puts its child's
\* point: the child is turned about the group's origin, then moved.
GroupToParent(position, rotation, childPoint) ==
    Translate(position, Rotate(childPoint, rotation))

\* The origin of SeatNode's Group in its parent: tablePosition + seat.position.
SeatNode(seat, tablePosition) == Translate(tablePosition, seat.position)

\* seatPositions.map(seat => <SeatNode seat={seat} tablePosition={{x: 0, y: 0}} />)
\* inside the Group: where each seat is drawn.
RECURSIVE DrawSeats(_, _, _)
DrawSeats(seatPositions, position, rotation) ==
    IF seatPositions = <<>> THEN <<>>
    ELSE <<GroupToParent(position, rotation,
                         SeatNode(Head(seatPositions), Vec(Q(0), Q(0))))>>
         \o DrawSeats(Tail(seatPositions), position, rotation)

\* Mutant of Render: the Group is not turned.
Render_groupUnrotated(t, isDragging, memo) ==
    IF memo.threw THEN [threw |-> TRUE, seatPositions |-> <<>>, value |-> <<>>]
    ELSE [threw |-> FALSE,
          seatPositions |-> memo.value,
          value |-> IF isDragging THEN <<>>
                    ELSE DrawSeats(memo.value, t.position, 0)]

\* TableNode's JSX, given what useMemo holds: the seats are children of the
\* Group at table.position with rotation table.rotation, hidden in a drag.
Render(t, isDragging, memo) ==
    IF memo.threw THEN [threw |-> TRUE, seatPositions |-> <<>>, value |-> <<>>]
    ELSE [threw |-> FALSE,
          seatPositions |-> memo.value,
          value |-> IF isDragging THEN <<>>
                    ELSE DrawSeats(memo.value, t.position, t.rotation)]

\* The world position of every seat TableNode draws, with the memoised
\* seatPositions; [threw |-> TRUE] when getSeatPositions throws in the render.
TableNode(t, isDragging) == Render(t, isDragging, getSeatPositions(t))

-----------------------------------------------------------------------------
(* The plan store.  A table id is a natural number standing for a nanoid   *)
(* string; a table name is a sequence of tokens: the token "Table " is the *)
(* six characters T, a, b, l, e, space, and every other token is one       *)
(* character or a word without digits.                                     *)

Digits == <<"0", "1", "2", "3", "4", "5", "6", "7", "8", "9">>
IsDigit(c) == \E d \in 1..10 : Digits[d] = c
DigitValue(c) == (CHOOSE d \in 1..10 : Digits[d] = c) - 1

\* name.match(/^Table (\d+)$/)
MatchesTableNumber(name) ==
    /\ Len(name) >= 2
    /\ name[1] = "Table "
    /\ \A k \in 2..Len(name) : IsDigit(name[k])

\* parseInt(digits, 10)
RECURSIVE parseInt(_)
parseInt(digits) ==
    IF digits = <<>> THEN 0
    ELSE 10 * parseInt(SubSeq(digits, 1, Len(digits) - 1))
             + DigitValue(digits[Len(digits)])

\* The decimal digits of n >= 0, as `${n}` writes them.
RECURSIVE ToDigits(_)
ToDigits(n) ==
    IF n < 10 THEN <<Digits[n + 1]>>
    ELSE Append(ToDigits(n \div 10), Digits[(n % 10) + 1])

\* Math.max(...nums) of a non-empty list of integers
MaxOf(nums) == CHOOSE m \in {nums[k] : k \in DOMAIN nums} :
                   \A k \in DOMAIN nums : nums[k] <= m

\* Mutant of generateTableName: the number is the table count plus one.
generateTableName_countsTables(ts) ==
    <<"Table ">> \o ToDigits(Len(ts) + 1)

generateTableName(ts) ==
    LET Positive(num) == num > 0
        tableNumbers ==
            SelectSeq([k \in 1..Len(ts) |->
                          IF MatchesTableNumber(ts[k].name)
                          THEN parseInt(Tail(ts[k].name)) ELSE 0],
                      Positive)
        nextNumber == IF Len(tableNumbers) > 0 THEN MaxOf(tableNumbers) + 1 ELSE 1
    IN  <<"Table ">> \o ToDigits(nextNumber)

\* The store's state, as the actions below read and return it.
PlanState(ts, sel) == [tables |-> ts, selectedTableIds |-> sel]

\* addTable with the id that generateTableId returned.
addTable(state, id, position) ==
    LET newTable == [id |-> id,
                     name |-> generateTableName(state.tables),
                     shape |-> "round",
                     position |-> position,
                     seatCount |-> 8,
                     rotation |-> 0,
                     size |-> [width |-> 120, height |-> 120]]
    IN  PlanState(Append(state.tables, newTable), state.selectedTableIds)

\* {...table, ...updates}
Spread(t, updates) ==
    [f \in DOMAIN t |-> IF f \in DOMAIN updates THEN updates[f] ELSE t[f]]

updateTable(state, id, updates) ==
    PlanState([k \in 1..Len(state.tables) |->
                  IF state.tables[k].id = id
                  THEN Spread(state.tables[k], updates)
                  ELSE state.tables[k]],
              state.selectedTableIds)

\* Mutant of deleteTable: the selection filter is inverted (=== for !==).
deleteTable_selectionKeepsId(state, id) ==
    LET Other(t) == t.id # id
        SameId(selectedId) == selectedId = id
    IN  PlanState(SelectSeq(state.tables, Other),
                  SelectSeq(state.selectedTableIds, SameId))

\* Mutant of deleteTable: the selection is left as it was.
deleteTable_keepsSelection(state, id) ==
    LET Other(t) == t.id # id
    IN  PlanState(SelectSeq(state.tables, Other), state.selectedTableIds)

deleteTable(state, id) ==
    LET Other(t) == t.id # id
        OtherId(selectedId) == selectedId # id
    IN  PlanState(SelectSeq(state.tables, Other),
                  SelectSeq(state.selectedTableIds, OtherId))

selectTable(state, id) == PlanState(state.tables, <<id>>)

selectTables(state, ids) == PlanState(state.tables, ids)

clearSelection(state) == PlanState(state.tables, <<>>)

-----------------------------------------------------------------------------
(* The plan store specification: the store starts empty and its actions    *)
(* are called in any order with any arguments.                             *)

MaxTables == 3

\* Ids a caller may pass: those handed out so far or later, existing or not.
TableIds == 1..(MaxTables + 1)
AddPositions == {Vec(Q(400), Q(300))}
TableUpdates == {[name |-> <<"Head">>], [name |-> <<"Table ", "0", "7">>]}
\* Lists a caller may select: empty, one id of any kind, several ids in
\* either order, with a repeat.
IdLists == {<<>>} \cup {<<i>> : i \in TableIds}
               \cup {<<1, 2>>, <<2, 1>>, <<1, 2, 3>>, <<2, 1, 2>>}

NoCall == [op |-> "none", id |-> 0]
Store == PlanState(tables, selectedTableIds)

\* CanvasStage as mounted: no animation, no panning, nothing handled yet.
Null == 0
NoAnim == [gen |-> 0, status |-> "none", kind |-> "none",
           center |-> Vec(Q(0), Q(0)), anchorWorld |-> Vec(Q(0), Q(0)),
           targetScale |-> Q(1), targetPos |-> Vec(Q(0), Q(0)),
           panned |-> Vec(Q(0), Q(0))]
IdleStage ==
    /\ zoomAnimRef = Null
    /\ raf = [pending |-> {}, issued |-> 0]
    /\ stage = [isSpaceDown |-> FALSE, isMiddlePanning |-> FALSE,
                isLeftPanning |-> FALSE, mounted |-> TRUE]
    /\ anim = NoAnim
    /\ stageLog = [event |-> "none", frameGen |-> 0, used |-> 0, cancels |-> 0]

IdleSeatAndView ==
    /\ table = [shape |-> "round", position |-> Vec(Q(0), Q(0)),
                seatCount |-> MinSeats, size |-> [width |-> 80, height |-> 80],
                rotation |-> 0, seatConfig |-> Undefined]
    /\ seatCall = "idle"
    /\ seats = <<>>
    /\ tableBounds = <<>>
    /\ drawn = <<>>
    /\ IdleStage
    /\ view = [zoom |-> Q(1), pan |-> Vec(Q(0), Q(0))]
    /\ viewOp = "idle"
    /\ viewArg = <<>>
    /\ viewOut = <<>>

InitPlan ==
    /\ tables = <<>>
    /\ selectedTableIds = <<>>
    /\ idsIssued = 0
    /\ planCall = NoCall
    /\ IdleSeatAndView

\* Sets the store to the state an action returned.
SetStore(state) ==
    /\ tables' = state.tables
    /\ selectedTableIds' = state.selectedTableIds

AddTable ==
    \E position \in AddPositions :
        /\ Len(tables) < MaxTables
        /\ idsIssued < MaxTables + 1
        /\ idsIssued' = idsIssued + 1
        /\ SetStore(addTable(Store, idsIssued + 1, position))
        /\ planCall' = [op |-> "addTable", id |-> idsIssued + 1]
        /\ UNCHANGED <<seatVars, viewVars, stageVars>>

UpdateTable ==
    \E id \in TableIds, updates \in TableUpdates :
        /\ SetStore(updateTable(Store, id, updates))
        /\ planCall' = [op |-> "updateTable", id |-> id]
        /\ UNCHANGED <<idsIssued, seatVars, viewVars, stageVars>>

DeleteTable ==
    \E id \in TableIds :
        /\ SetStore(deleteTable(Store, id))
        /\ planCall' = [op |-> "deleteTable", id |-> id]
        /\ UNCHANGED <<idsIssued, seatVars, viewVars, stageVars>>

SelectTable ==
    \E id \in TableIds :
        /\ SetStore(selectTable(Store, id))
        /\ planCall' = [op |-> "selectTable", id |-> id]
        /\ UNCHANGED <<idsIssued, seatVars, viewVars, stageVars>>

SelectTables ==
    \E ids \in IdLists :
        /\ SetStore(selectTables(Store, ids))
        /\ planCall' = [op |-> "selectTables", id |-> 0]
        /\ UNCHANGED <<idsIssued, seatVars, viewVars, stageVars>>

ClearSelection ==
    /\ SetStore(clearSelection(Store))
    /\ planCall' = [op |-> "clearSelection", id |-> 0]
    /\ UNCHANGED <<idsIssued, seatVars, viewVars, stageVars>>

NextPlan ==
    \/ AddTable
    \/ UpdateTable
    \/ DeleteTable
    \/ SelectTable
    \/ SelectTables
    \/ ClearSelection

SpecPlan == InitPlan /\ [][NextPlan]_vars

-----------------------------------------------------------------------------
(* The plan store with callers that select only tables that are in the     *)
(* store, and that may hand updateTable an id among its updates.           *)

StoredIds == {tables[k].id : k \in 1..Len(tables)}

UpdateTableId ==
    \E id \in TableIds, newId \in TableIds :
        /\ SetStore(updateTable(Store, id, [id |-> newId]))
        /\ planCall' = [op |-> "updateTable", id |-> id]
        /\ UNCHANGED <<idsIssued, seatVars, viewVars, stageVars>>

SelectStoredTable ==
    \E id \in StoredIds :
        /\ SetStore(selectTable(Store, id))
        /\ planCall' = [op |-> "selectTable", id |-> id]
        /\ UNCHANGED <<idsIssued, seatVars, viewVars, stageVars>>

SelectStoredTables ==
    \E ids \in {l \in IdLists : \A k \in 1..Len(l) : l[k] \in StoredIds} :
        /\ SetStore(selectTables(Store, ids))
        /\ planCall' = [op |-> "selectTables", id |-> 0]
        /\ UNCHANGED <<idsIssued, seatVars, viewVars, stageVars>>

NextPlanSelectStored ==
    \/ AddTable
    \/ UpdateTableId
    \/ DeleteTable
    \/ SelectStoredTable
    \/ SelectStoredTables
    \/ ClearSelection

SpecPlanSelectStored == InitPlan /\ [][NextPlanSelectStored]_vars

-----------------------------------------------------------------------------
(* The seat geometry specification: a table of the schema is handed to     *)
(* getSeatPositions or to getTableBounds, once.                            *)

MaxSizeUnits == 6

Shapes == {"round", "rect", "square"}
Lengths == {20 * k : k \in 4..MaxSizeUnits}
Rotations == {0, 90, 180, 270}
\* seatConfig?.cornerSeats: Undefined when seatConfig (or its cornerSeats) is absent.
CornerSeatValues == {Undefined} \cup 0..4

Positions == {Vec(Q(0), Q(0)), Vec(Q(130), Q(-70))}

\* seatConfig is read for rect tables only; the other shapes come without it.
Tables ==
    {t \in [shape : Shapes \cup {"hexagon"},
            position : Positions,
            seatCount : MinSeats..MaxSeats,
            size : [width : Lengths, height : Lengths],
            rotation : Rotations,
            seatConfig : CornerSeatValues] :
        t.shape # "rect" => t.seatConfig = Undefined}

NoView == [zoom |-> Q(1), pan |-> Vec(Q(0), Q(0))]

InitSeat ==
    /\ table \in Tables
    /\ seatCall = "idle"
    /\ seats = <<>>
    /\ tableBounds = <<>>
    /\ drawn = <<>>
    /\ IdleStage
    /\ view = NoView
    /\ viewOp = "idle"
    /\ viewArg = <<>>
    /\ viewOut = <<>>
    /\ tables = <<>>
    /\ selectedTableIds = <<>>
    /\ idsIssued = 0
    /\ planCall = NoCall

CallGetSeatPositions ==
    /\ seatCall = "idle"
    /\ \E r \in {getSeatPositions(table)} :
           /\ seatCall' = IF r.threw THEN "threw" ELSE "returned"
           /\ seats' = r.value
    /\ UNCHANGED <<table, tableBounds, drawn, viewVars, planVars, stageVars>>

CallGetTableBounds ==
    /\ seatCall = "idle"
    /\ seatCall' = "bounds"
    /\ tableBounds' = getTableBounds(table)
    /\ UNCHANGED <<table, seats, drawn, viewVars, planVars, stageVars>>

\* A render of TableNode; getSeatPositions throws out of the render for a
\* shape it does not know.
RenderTableNode ==
    /\ seatCall = "idle"
    /\ \E isDragging \in BOOLEAN :
          \E node \in {TableNode(table, isDragging)} :
              /\ seatCall' = IF node.threw THEN "renderThrew" ELSE "rendered"
              /\ seats' = node.seatPositions
              /\ drawn' = node.value
    /\ UNCHANGED <<table, tableBounds, viewVars, planVars, stageVars>>

NextSeat ==
    \/ CallGetSeatPositions
    \/ CallGetTableBounds
    \/ RenderTableNode

SpecSeat == InitSeat /\ [][NextSeat]_vars

-----------------------------------------------------------------------------
(* The viewport transform engine.                                          *)

GRID_SIZE == 20
MajorEvery == 5
maxLines == 400
MinZoom == Frac(1, 10)
MaxZoom == Q(8)
DefaultPadding == 20

\* Mutant of clamp: the lower bound is not applied.
clamp_upperOnly(v, min, max) == QMin(max, v)

\* Math.min(max, Math.max(min, v))
clamp(v, min, max) == QMin(max, QMax(min, v))

snap(v, gridSizeArg) ==
    LET gridSize == IF gridSizeArg = NoGridSize THEN Q(GRID_SIZE) ELSE gridSizeArg
    IN  QMul(Q(QRound(QDiv(v, gridSize))), gridSize)

snapPoint(point, gridSizeArg) ==
    Vec(snap(point.x, gridSizeArg), snap(point.y, gridSizeArg))

screenToWorld(screenPoint, transform) ==
    Vec(QDiv(QSub(screenPoint.x, transform.pan.x), transform.zoom),
        QDiv(QSub(screenPoint.y, transform.pan.y), transform.zoom))

\* Mutant of worldToScreen: the pan is added before scaling.
worldToScreen_panFirst(worldPoint, transform) ==
    Vec(QMul(QAdd(worldPoint.x, transform.pan.x), transform.zoom),
        QMul(QAdd(worldPoint.y, transform.pan.y), transform.zoom))

worldToScreen(worldPoint, transform) ==
    Vec(QAdd(QMul(worldPoint.x, transform.zoom), transform.pan.x),
        QAdd(QMul(worldPoint.y, transform.zoom), transform.pan.y))

getWorldBounds(viewport, transform) ==
    LET topLeft == screenToWorld(Vec(Q(0), Q(0)), transform)
        bottomRight == screenToWorld(Vec(Q(viewport.width), Q(viewport.height)), transform)
    IN  [min |-> topLeft,
         max |-> bottomRight,
         width |-> QSub(bottomRight.x, topLeft.x),
         height |-> QSub(bottomRight.y, topLeft.y)]

\* Mutant of calculateFitTransform: the bounds are aligned to the padded
\* top-left corner instead of being centred.
calculateFitTransform_topLeft(bounds, viewport, padding) ==
    LET boundsWidth == QSub(bounds.max.x, bounds.min.x)
        boundsHeight == QSub(bounds.max.y, bounds.min.y)
    IN  IF QLe(boundsWidth, Q(0)) \/ QLe(boundsHeight, Q(0))
        THEN [zoom |-> Q(1), pan |-> Vec(Q(0), Q(0))]
        ELSE LET availableWidth == Q(viewport.width - padding * 2)
                 availableHeight == Q(viewport.height - padding * 2)
                 scaleX == QDiv(availableWidth, boundsWidth)
                 scaleY == QDiv(availableHeight, boundsHeight)
                 zoom == clamp(QMin(scaleX, scaleY), MinZoom, MaxZoom)
             IN  [zoom |-> zoom,
                  pan |-> Vec(QSub(Q(padding), QMul(bounds.min.x, zoom)),
                              QSub(Q(padding), QMul(bounds.min.y, zoom)))]

\* Mutant of calculateFitTransform: the guard tests the height only.
calculateFitTransform_heightOnly(bounds, viewport, padding) ==
    LET boundsWidth == QSub(bounds.max.x, bounds.min.x)
        boundsHeight == QSub(bounds.max.y, bounds.min.y)
    IN  IF QLe(boundsHeight, Q(0))
        THEN [zoom |-> Q(1), pan |-> Vec(Q(0), Q(0))]
        ELSE LET availableWidth == Q(viewport.width - padding * 2)
                 availableHeight == Q(viewport.height - padding * 2)
                 scaleX == QDiv(availableWidth, boundsWidth)
                 scaleY == QDiv(availableHeight, boundsHeight)
                 zoom == clamp(QMin(scaleX, scaleY), MinZoom, MaxZoom)
                 boundsCenter == Vec(QDiv(QAdd(bounds.min.x, bounds.max.x), Q(2)),
                                     QDiv(QAdd(bounds.min.y, bounds.max.y), Q(2)))
                 viewportCenter == Vec(Frac(viewport.width, 2), Frac(viewport.height, 2))
             IN  [zoom |-> zoom,
                  pan |-> Vec(QSub(viewportCenter.x, QMul(boundsCenter.x, zoom)),
                              QSub(viewportCenter.y, QMul(boundsCenter.y, zoom)))]

calculateFitTransform(bounds, viewport, padding) ==
    LET boundsWidth == QSub(bounds.max.x, bounds.min.x)
        boundsHeight == QSub(bounds.max.y, bounds.min.y)
    IN  IF QLe(boundsWidth, Q(0)) \/ QLe(boundsHeight, Q(0))
        THEN [zoom |-> Q(1), pan |-> Vec(Q(0), Q(0))]
        ELSE LET availableWidth == Q(viewport.width - padding * 2)
                 availableHeight == Q(viewport.height - padding * 2)
                 scaleX == QDiv(availableWidth, boundsWidth)
                 scaleY == QDiv(availableHeight, boundsHeight)
                 zoom == clamp(QMin(scaleX, scaleY), MinZoom, MaxZoom)
                 boundsCenter == Vec(QDiv(QAdd(bounds.min.x, bounds.max.x), Q(2)),
                                     QDiv(QAdd(bounds.min.y, bounds.max.y), Q(2)))
                 viewportCenter == Vec(Frac(viewport.width, 2), Frac(viewport.height, 2))
             IN  [zoom |-> zoom,
                  pan |-> Vec(QSub(viewportCenter.x, QMul(boundsCenter.x, zoom)),
                              QSub(viewportCenter.y, QMul(boundsCenter.y, zoom)))]

\* Mutant of GridLoop: the cap is tested with <=, one line too many.
GridLoop_offByOne(start, end, gridSize, majorEvery) ==
    LET runs == {k \in 0..(maxLines + 1) : start + k * gridSize <= end /\ k <= maxLines}
    IN  [j \in 1..Cardinality(runs) |->
            LET x == start + (j - 1) * gridSize
                index == QRound(Frac(x, gridSize))
            IN  [at |-> x, major |-> (index % majorEvery = 0)]]

\* for (let x = start; x <= end && count < maxLines; x += gridSize, count++)
\*   lines.push({x, major: Math.round(x / gridSize) % majorEvery === 0})
\* Before iteration k (from 0) x = start + k * gridSize and count = k, and the
\* guard only ever turns false: the loop runs for the k of `runs`, in order.
\* start, end and gridSize are integers, so every x is one.
GridLoop(start, end, gridSize, majorEvery) ==
    LET runs == {k \in 0..maxLines : start + k * gridSize <= end /\ k < maxLines}
    IN  [j \in 1..Cardinality(runs) |->
            LET x == start + (j - 1) * gridSize
                index == QRound(Frac(x, gridSize))
            IN  [at |-> x, major |-> (index % majorEvery = 0)]]

\* Mutant of getVisibleGridLines: the end is snapped with Math.floor, inward.
getVisibleGridLines_floorsEnd(viewport, transform, gridSize, majorEvery) ==
    LET worldBounds == getWorldBounds(viewport, transform)
        startX == QFloor(QDiv(worldBounds.min.x, Q(gridSize))) * gridSize
        startY == QFloor(QDiv(worldBounds.min.y, Q(gridSize))) * gridSize
        endX == QFloor(QDiv(worldBounds.max.x, Q(gridSize))) * gridSize
        endY == QFloor(QDiv(worldBounds.max.y, Q(gridSize))) * gridSize
    IN  [verticals |-> GridLoop(startX, endX, gridSize, majorEvery),
         horizontals |-> GridLoop(startY, endY, gridSize, majorEvery),
         worldBounds |-> worldBounds]

getVisibleGridLines(viewport, transform, gridSize, majorEvery) ==
    LET worldBounds == getWorldBounds(viewport, transform)
        startX == QFloor(QDiv(worldBounds.min.x, Q(gridSize))) * gridSize
        startY == QFloor(QDiv(worldBounds.min.y, Q(gridSize))) * gridSize
        endX == QCeil(QDiv(worldBounds.max.x, Q(gridSize))) * gridSize
        endY == QCeil(QDiv(worldBounds.max.y, Q(gridSize))) * gridSize
    IN  [verticals |-> GridLoop(startX, endX, gridSize, majorEvery),
         horizontals |-> GridLoop(startY, endY, gridSize, majorEvery),
         worldBounds |-> worldBounds]

\* Mutant of calculateZoomAtPoint: the pan is carried over unchanged.
calculateZoomAtPoint_keepsPan(currentTransform, zoomPoint, newZoom) ==
    LET clampedZoom == clamp(newZoom, MinZoom, MaxZoom)
    IN  IF clampedZoom = currentTransform.zoom
        THEN currentTransform
        ELSE [zoom |-> clampedZoom, pan |-> currentTransform.pan]

\* Mutant of calculateZoomAtPoint: the result carries newZoom, not clampedZoom.
calculateZoomAtPoint_unclampedZoom(currentTransform, zoomPoint, newZoom) ==
    LET clampedZoom == clamp(newZoom, MinZoom, MaxZoom)
    IN  IF clampedZoom = currentTransform.zoom
        THEN currentTransform
        ELSE LET worldPoint == screenToWorld(zoomPoint, currentTransform)
             IN  [zoom |-> newZoom,
                  pan |-> Vec(QSub(zoomPoint.x, QMul(worldPoint.x, clampedZoom)),
                              QSub(zoomPoint.y, QMul(worldPoint.y, clampedZoom)))]

calculateZoomAtPoint(currentTransform, zoomPoint, newZoom) ==
    LET clampedZoom == clamp(newZoom, MinZoom, MaxZoom)
    IN  IF clampedZoom = currentTransform.zoom
        THEN currentTransform
        ELSE LET worldPoint == screenToWorld(zoomPoint, currentTransform)
             IN  [zoom |-> clampedZoom,
                  pan |-> Vec(QSub(zoomPoint.x, QMul(worldPoint.x, clampedZoom)),
                              QSub(zoomPoint.y, QMul(worldPoint.y, clampedZoom)))]

lerp(a, b, t) == QAdd(a, QMul(QSub(b, a), t))

lerpVec2(a, b, t) == Vec(lerp(a.x, b.x, t), lerp(a.y, b.y, t))

lerpTransform(a, b, t) ==
    [zoom |-> lerp(a.zoom, b.zoom, t), pan |-> lerpVec2(a.pan, b.pan, t)]

-----------------------------------------------------------------------------
(* The transform specification: a caller holds a ViewTransform and applies *)
(* one function of the engine to it.                                       *)

MaxPanIdx == 1
MaxPointIdx == 2

\* Zooms a caller may hold or ask for: inside [0.1, 8], on its ends, outside.
ZoomValues == {Frac(1, 100), Frac(1, 10), Frac(1, 2), Q(1), Frac(3, 2), Q(2), Q(8), Q(10)}
ZoomInRange(z) == QLe(MinZoom, z) /\ QLe(z, MaxZoom)
PanValues == {Vec(Q(70 * i), Q(70 * j)) : i, j \in (-1)..MaxPanIdx}
Points == {Vec(Q(130 * i), Q(130 * j)) : i, j \in 0..MaxPointIdx}
Views == [zoom : ZoomValues, pan : PanValues]
Viewports == {[width |-> 400, height |-> 300], [width |-> 800, height |-> 600],
              [width |-> 0, height |-> 0]}
LerpTs == {Q(0), Frac(1, 2), Q(1), Q(2), Q(-1)}
FitBounds == {[min |-> Vec(Q(0), Q(0)), max |-> Vec(Q(0), Q(0))],
              [min |-> Vec(Q(0), Q(0)), max |-> Vec(Q(100), Q(100))],
              [min |-> Vec(Q(-50), Q(20)), max |-> Vec(Q(150), Q(40))],
              [min |-> Vec(Q(0), Q(0)), max |-> Vec(Q(10), Q(10))],
              [min |-> Vec(Q(0), Q(0)), max |-> Vec(Q(10000), Q(10000))],
              [min |-> Vec(Q(100), Q(0)), max |-> Vec(Q(0), Q(100))],
              [min |-> Vec(Q(0), Q(50)), max |-> Vec(Q(100), Q(50))]}
Paddings == {0, DefaultPadding, 250}
\* Coordinates to snap: on the grid, between lines, half way, negative.
SnapCoords == {Q(17), Q(23), Q(10), Q(-30), Frac(-5, 2), Q(0), Frac(47, 3)}
SnapPoints == {Vec(x, y) : x, y \in SnapCoords}
GridSizes == {NoGridSize, Q(1), Frac(5, 2), Q(7)}

InitView ==
    /\ view \in Views
    /\ viewOp = "idle"
    /\ viewArg = <<>>
    /\ viewOut = <<>>
    /\ table = [shape |-> "round", position |-> Vec(Q(0), Q(0)),
                seatCount |-> MinSeats, size |-> [width |-> 80, height |-> 80],
                rotation |-> 0, seatConfig |-> Undefined]
    /\ seatCall = "idle"
    /\ seats = <<>>
    /\ tableBounds = <<>>
    /\ drawn = <<>>
    /\ IdleStage
    /\ tables = <<>>
    /\ selectedTableIds = <<>>
    /\ idsIssued = 0
    /\ planCall = NoCall

ScreenToWorld ==
    \E p \in Points :
        /\ viewOp = "idle"
        /\ viewOp' = "screenToWorld"
        /\ viewArg' = [point |-> p]
        /\ viewOut' = screenToWorld(p, view)
        /\ UNCHANGED <<view, seatVars, planVars, stageVars>>

WorldToScreen ==
    \E p \in Points :
        /\ viewOp = "idle"
        /\ viewOp' = "worldToScreen"
        /\ viewArg' = [point |-> p]
        /\ viewOut' = worldToScreen(p, view)
        /\ UNCHANGED <<view, seatVars, planVars, stageVars>>

CalculateZoomAtPoint ==
    \E p \in Points, z \in ZoomValues :
        /\ viewOp = "idle"
        /\ viewOp' = "calculateZoomAtPoint"
        /\ viewArg' = [zoomPoint |-> p, newZoom |-> z]
        /\ viewOut' = calculateZoomAtPoint(view, p, z)
        /\ UNCHANGED <<view, seatVars, planVars, stageVars>>

CalculateFitTransform ==
    \E b \in FitBounds, vp \in Viewports, pad \in Paddings :
        /\ viewOp = "idle"
        /\ viewOp' = "calculateFitTransform"
        /\ viewArg' = [bounds |-> b, viewport |-> vp, padding |-> pad]
        /\ viewOut' = calculateFitTransform(b, vp, pad)
        /\ UNCHANGED <<view, seatVars, planVars, stageVars>>

LerpTransform ==
    \E b \in Views, t \in LerpTs :
        /\ viewOp = "idle"
        /\ viewOp' = "lerpTransform"
        /\ viewArg' = [b |-> b, t |-> t]
        /\ viewOut' = lerpTransform(view, b, t)
        /\ UNCHANGED <<view, seatVars, planVars, stageVars>>

GetVisibleGridLines ==
    \E vp \in Viewports :
        /\ viewOp = "idle"
        /\ viewOp' = "getVisibleGridLines"
        /\ viewArg' = [viewport |-> vp]
        /\ viewOut' = getVisibleGridLines(vp, view, GRID_SIZE, MajorEvery)
        /\ UNCHANGED <<view, seatVars, planVars, stageVars>>

SnapPoint ==
    \E p \in SnapPoints, g \in GridSizes :
        /\ viewOp = "idle"
        /\ viewOp' = "snapPoint"
        /\ viewArg' = [point |-> p, gridSize |-> g]
        /\ viewOut' = snapPoint(p, g)
        /\ UNCHANGED <<view, seatVars, planVars, stageVars>>

SnapToGrid ==
    \E p \in SnapPoints, g \in GridSizes :
        /\ viewOp = "idle"
        /\ viewOp' = "snapToGrid"
        /\ viewArg' = [point |-> p, gridSize |-> g]
        /\ viewOut' = snapToGrid(p, g)
        /\ UNCHANGED <<view, seatVars, planVars, stageVars>>

NextView ==
    \/ ScreenToWorld
    \/ WorldToScreen
    \/ CalculateZoomAtPoint
    \/ CalculateFitTransform
    \/ LerpTransform
    \/ GetVisibleGridLines
    \/ SnapPoint
    \/ SnapToGrid

SpecView == InitView /\ [][NextView]_vars

-----------------------------------------------------------------------------
(* CanvasStage: the view animation and the pan and zoom handlers.  The     *)
(* handlers read zoom and pan as the store holds them: a render is taken   *)
(* to have run between two events.  An operator takes and returns          *)
(* s = [view, ref, raf, gen]: the store's view, zoomAnimRef.current.id,    *)
(* the browser's callbacks and the number of animations started.           *)

scaleBy == Frac(21, 20)
KeyZoomFactor == Frac(11, 10)
FitPadding == 40
StageViewport == [width |-> 1024, height |-> 768]
StageCenter == Vec(Frac(StageViewport.width, 2), Frac(StageViewport.height, 2))
DemoNode == [x |-> 100, y |-> 100, width |-> 160, height |-> 100]

\* 1 - Math.pow(1 - t, 3)
easeOutCubic(t) ==
    CHOOSE r \in {QSub(Q(1), QMul(QMul(u, u), u)) : u \in {QSub(Q(1), t)}} : TRUE

\* cancelAnimationFrame(ref.id); ref.id = null, when ref.id is set.
cancelZoomAnim(s) ==
    IF s.ref # Null
    THEN [s EXCEPT !.raf.pending = {cb \in s.raf.pending : cb.id # s.ref},
                   !.ref = Null]
    ELSE s

\* zoomAnimRef.current.id = requestAnimationFrame(step)
requestStep(s, cb) ==
    CHOOSE r \in
        {LET id == x.raf.issued + 1
         IN  [x EXCEPT !.raf = [pending |-> x.raf.pending \cup {[cb EXCEPT !.id = id]},
                                issued |-> id],
                       !.ref = id] :
           x \in {s}} : TRUE

\* What the step closure of animateViewTo captures; ran is the progress
\* t = min(1, (now - start) / duration) of its last run, -1 before the first.
StepClosure(s, targetScale, targetPos) ==
    [id |-> Null,
     gen |-> s.gen + 1,
     targetScale |-> targetScale,
     startScale |-> s.view.zoom,
     startPos |-> s.view.pan,
     endScale |-> clamp(targetScale, MinZoom, MaxZoom),
     endPos |-> targetPos,
     ran |-> Q(-1)]

\* Mutant of animateViewTo: the pending frame is not cancelled first.
animateViewTo_noCancel(s, targetScale, targetPos) ==
    requestStep([s EXCEPT !.gen = s.gen + 1], StepClosure(s, targetScale, targetPos))

animateViewTo(s, targetScale, targetPos) ==
    requestStep([cancelZoomAnim(s) EXCEPT !.gen = s.gen + 1],
                StepClosure(s, targetScale, targetPos))

animateZoomAt(s, center, targetScale) ==
    LET endScale == clamp(targetScale, MinZoom, MaxZoom)
        anchorWorld == Vec(QDiv(QSub(center.x, s.view.pan.x), s.view.zoom),
                           QDiv(QSub(center.y, s.view.pan.y), s.view.zoom))
        targetPos == Vec(QSub(center.x, QMul(anchorWorld.x, endScale)),
                         QSub(center.y, QMul(anchorWorld.y, endScale)))
    IN  animateViewTo(s, endScale, targetPos)

\* Mutant of step: a frame is requested again after the last one (t <= 1).
step_keepsScheduling(s, cb, t) ==
    CHOOSE r \in
        {LET written == [s EXCEPT
                 !.view = [zoom |-> QAdd(cb.startScale,
                                         QMul(QSub(cb.endScale, cb.startScale), k)),
                           pan |-> Vec(QAdd(cb.startPos.x,
                                            QMul(QSub(cb.endPos.x, cb.startPos.x), k)),
                                       QAdd(cb.startPos.y,
                                            QMul(QSub(cb.endPos.y, cb.startPos.y), k)))],
                 !.raf.pending = s.raf.pending \ {cb}]
         IN  IF QLe(t, Q(1)) THEN requestStep(written, [cb EXCEPT !.ran = t])
             ELSE [written EXCEPT !.ref = Null] :
           k \in {easeOutCubic(t)}} : TRUE

\* One run of the step closure cb at progress t: setView, then either the
\* next frame is requested or the id is cleared.
step(s, cb, t) ==
    CHOOSE r \in
        {LET written == [s EXCEPT
                 !.view = [zoom |-> QAdd(cb.startScale,
                                         QMul(QSub(cb.endScale, cb.startScale), k)),
                           pan |-> Vec(QAdd(cb.startPos.x,
                                            QMul(QSub(cb.endPos.x, cb.startPos.x), k)),
                                       QAdd(cb.startPos.y,
                                            QMul(QSub(cb.endPos.y, cb.startPos.y), k)))],
                 !.raf.pending = s.raf.pending \ {cb}]
         IN  IF QLt(t, Q(1)) THEN requestStep(written, [cb EXCEPT !.ran = t])
             ELSE [written EXCEPT !.ref = Null] :
           k \in {easeOutCubic(t)}} : TRUE

\* Mutant of wheelZoom: the new scale is not clamped.
wheelZoom_unclamped(s, pointerPosition, deltaY) ==
    LET pointer == IF pointerPosition = <<>> THEN StageCenter ELSE pointerPosition[1]
        c == cancelZoomAnim(s)
        oldScale == s.view.zoom
        newScale == IF deltaY > 0 THEN QDiv(oldScale, scaleBy)
                    ELSE QMul(oldScale, scaleBy)
        anchorWorld == Vec(QDiv(QSub(pointer.x, s.view.pan.x), oldScale),
                           QDiv(QSub(pointer.y, s.view.pan.y), oldScale))
    IN  [c EXCEPT !.view = [zoom |-> newScale,
                            pan |-> Vec(QSub(pointer.x, QMul(anchorWorld.x, newScale)),
                                        QSub(pointer.y, QMul(anchorWorld.y, newScale)))]]

\* The ctrl/meta branch of onWheel; pointerPosition is what
\* stage.getPointerPosition() returns: <<p>>, or <<>> for null.
wheelZoom(s, pointerPosition, deltaY) ==
    LET pointer == IF pointerPosition = <<>> THEN StageCenter ELSE pointerPosition[1]
        c == cancelZoomAnim(s)
        oldScale == s.view.zoom
        newScale == clamp(IF deltaY > 0 THEN QDiv(oldScale, scaleBy)
                          ELSE QMul(oldScale, scaleBy), MinZoom, MaxZoom)
        anchorWorld == Vec(QDiv(QSub(pointer.x, s.view.pan.x), oldScale),
                           QDiv(QSub(pointer.y, s.view.pan.y), oldScale))
    IN  [c EXCEPT !.view = [zoom |-> newScale,
                            pan |-> Vec(QSub(pointer.x, QMul(anchorWorld.x, newScale)),
                                        QSub(pointer.y, QMul(anchorWorld.y, newScale)))]]

\* The "1" key: the view that fits the demo node, animated to.
fitDemoNode(s, node) ==
    IF node.width > 0 /\ node.height > 0
    THEN LET availW == QMax(Q(1), Q(StageViewport.width - FitPadding * 2))
             availH == QMax(Q(1), Q(StageViewport.height - FitPadding * 2))
             scaleFit == clamp(QMin(QDiv(availW, Q(node.width)),
                                    QDiv(availH, Q(node.height))), MinZoom, MaxZoom)
             centerWorld == Vec(QAdd(Q(node.x), Frac(node.width, 2)),
                                QAdd(Q(node.y), Frac(node.height, 2)))
             posFit == Vec(QSub(StageCenter.x, QMul(centerWorld.x, scaleFit)),
                           QSub(StageCenter.y, QMul(centerWorld.y, scaleFit)))
         IN  animateViewTo(s, scaleFit, posFit)
    ELSE s

-----------------------------------------------------------------------------
(* The stage specification: user events, at most MaxStageEvents of them,   *)
(* and the browser running animation frames.                               *)

MaxStageEvents == 2

\* Zooms the wheel reaches from 1: the two limits the clamp stops at, and 1.
StageZooms == {MinZoom, Q(1), MaxZoom}
FrameProgress == {Frac(1, 2), Q(1)}
PointerPositions == {<<>>, <<Vec(Q(0), Q(0))>>}
WheelDeltaYs == {-100, 100}
WheelPanDeltas == {Vec(Q(30), Q(-40))}
ArrowKeys == {"ArrowLeft", "ArrowRight", "ArrowUp", "ArrowDown"}
MouseButtons == {0, 1}
MouseMoves == {Vec(Q(0), Q(0)), Vec(Q(12), Q(-7))}
StageDrags == {Vec(Q(25), Q(5))}

InitStage ==
    /\ view \in {[zoom |-> z, pan |-> Vec(Q(0), Q(0))] : z \in StageZooms}
    /\ IdleStage
    /\ viewOp = "idle"
    /\ viewArg = <<>>
    /\ viewOut = <<>>
    /\ table = [shape |-> "round", position |-> Vec(Q(0), Q(0)),
                seatCount |-> MinSeats, size |-> [width |-> 80, height |-> 80],
                rotation |-> 0, seatConfig |-> Undefined]
    /\ seatCall = "idle"
    /\ seats = <<>>
    /\ tableBounds = <<>>
    /\ drawn = <<>>
    /\ tables = <<>>
    /\ selectedTableIds = <<>>
    /\ idsIssued = 0
    /\ planCall = NoCall

StageNow == [view |-> view, ref |-> zoomAnimRef, raf |-> raf, gen |-> anim.gen]

SetStage(s) ==
    /\ view' = s.view
    /\ zoomAnimRef' = s.ref
    /\ raf' = s.raf

CanHandle == stage.mounted /\ stageLog.used < MaxStageEvents

Logged(event) ==
    stageLog' = [event |-> event,
                 frameGen |-> 0,
                 used |-> stageLog.used + 1,
                 cancels |-> stageLog.cancels
                                + (IF /\ zoomAnimRef # Null
                                      /\ \A cb \in raf'.pending : cb.id # zoomAnimRef
                                   THEN 1 ELSE 0)]

\* History of the animation an action started: what animateViewTo was given,
\* for animateZoomAt its center and the world point under it.
Started(s, kind, center) ==
    LET cb == CHOOSE c \in s.raf.pending : c.id = s.ref
    IN  [gen |-> cb.gen, status |-> "running", kind |-> kind,
         center |-> center, anchorWorld |-> screenToWorld(center, view),
         targetScale |-> cb.targetScale, targetPos |-> cb.endPos,
         panned |-> Vec(Q(0), Q(0))]

Cancelled == IF zoomAnimRef # Null /\ anim.status = "running"
             THEN [anim EXCEPT !.status = "cancelled"]
             ELSE anim

Panned(d) == IF anim.status = "running"
             THEN [anim EXCEPT !.panned = Vec(QAdd(@.x, d.x), QAdd(@.y, d.y))]
             ELSE anim

SetPan(d) ==
    /\ view' = [view EXCEPT !.pan = Vec(QAdd(@.x, d.x), QAdd(@.y, d.y))]
    /\ UNCHANGED <<zoomAnimRef, raf>>

OtherDomains == <<viewOp, viewArg, viewOut, seatVars, planVars>>

\* The + and - keys and the zoom buttons: animateZoomAt(center, zoom * 1.1)
\* or animateZoomAt(center, zoom / 1.1).
ZoomKey ==
    /\ CanHandle
    /\ \E zoomIn \in BOOLEAN :
          \E s \in {animateZoomAt(StageNow, StageCenter,
                                  IF zoomIn THEN QMul(view.zoom, KeyZoomFactor)
                                  ELSE QDiv(view.zoom, KeyZoomFactor))} :
              /\ SetStage(s)
              /\ anim' = Started(s, "zoomAt", StageCenter)
    /\ UNCHANGED <<stage, OtherDomains>>
    /\ Logged("zoomKey")

\* The 0 key: animateViewTo(1, {x: 0, y: 0}, 200).
ResetKey ==
    /\ CanHandle
    /\ \E s \in {animateViewTo(StageNow, Q(1), Vec(Q(0), Q(0)))} :
          /\ SetStage(s)
          /\ anim' = Started(s, "viewTo", StageCenter)
    /\ UNCHANGED <<stage, OtherDomains>>
    /\ Logged("resetKey")

\* The 1 key; the demo node is where it is first drawn.
FitKey ==
    /\ CanHandle
    /\ \E s \in {fitDemoNode(StageNow, DemoNode)} :
          /\ SetStage(s)
          /\ anim' = Started(s, "viewTo", StageCenter)
    /\ UNCHANGED <<stage, OtherDomains>>
    /\ Logged("fitKey")

\* onWheel with ctrl or meta held.
WheelZoom ==
    /\ CanHandle
    /\ \E pointerPosition \in PointerPositions, deltaY \in WheelDeltaYs :
          SetStage(wheelZoom(StageNow, pointerPosition, deltaY))
    /\ anim' = Cancelled
    /\ UNCHANGED <<stage, OtherDomains>>
    /\ Logged("wheelZoom")

\* onWheel without ctrl or meta: setPan({x: pan.x - deltaX, y: pan.y - deltaY}).
WheelPan ==
    /\ CanHandle
    /\ \E delta \in WheelPanDeltas :
          LET d == Vec(QNeg(delta.x), QNeg(delta.y))
          IN  SetPan(d) /\ anim' = Panned(d)
    /\ UNCHANGED <<stage, OtherDomains>>
    /\ Logged("wheelPan")

\* The arrow keys: a pan by 50, by 100 with shift.
ArrowKey ==
    /\ CanHandle
    /\ \E key \in ArrowKeys, shiftKey \in BOOLEAN :
          LET distance == IF shiftKey THEN 100 ELSE 50
              d == CASE key = "ArrowLeft" -> Vec(Q(distance), Q(0))
                     [] key = "ArrowRight" -> Vec(Q(-distance), Q(0))
                     [] key = "ArrowUp" -> Vec(Q(0), Q(distance))
                     [] key = "ArrowDown" -> Vec(Q(0), Q(-distance))
          IN  SetPan(d) /\ anim' = Panned(d)
    /\ UNCHANGED <<stage, OtherDomains>>
    /\ Logged("arrowKey")

\* The Space key going down and up.
SpaceKey ==
    /\ CanHandle
    /\ \E down \in BOOLEAN : stage' = [stage EXCEPT !.isSpaceDown = down]
    /\ UNCHANGED <<view, zoomAnimRef, raf, anim, OtherDomains>>
    /\ Logged("spaceKey")

\* onMouseDown.  isNodeDragging is the demo node's drag state and onStage
\* says the empty stage was hit; ctrl or meta held leaves a left press alone.
MouseDown ==
    /\ CanHandle
    /\ \E button \in MouseButtons, isNodeDragging \in BOOLEAN,
          onStage \in BOOLEAN, ctrlKey \in BOOLEAN :
          IF isNodeDragging
          THEN UNCHANGED <<view, zoomAnimRef, raf, stage, anim>>
          ELSE IF button = 1
          THEN /\ SetStage(cancelZoomAnim(StageNow))
               /\ anim' = Cancelled
               /\ stage' = [stage EXCEPT !.isMiddlePanning = TRUE]
          ELSE IF ~ctrlKey /\ onStage
          THEN /\ SetStage(cancelZoomAnim(StageNow))
               /\ anim' = Cancelled
               /\ stage' = [stage EXCEPT !.isLeftPanning = TRUE]
          ELSE UNCHANGED <<view, zoomAnimRef, raf, stage, anim>>
    /\ UNCHANGED OtherDomains
    /\ Logged("mouseDown")

\* onMouseUp.
MouseUp ==
    /\ CanHandle
    /\ \E button \in MouseButtons :
          stage' = IF button = 1 THEN [stage EXCEPT !.isMiddlePanning = FALSE]
                   ELSE [stage EXCEPT !.isLeftPanning = FALSE]
    /\ UNCHANGED <<view, zoomAnimRef, raf, anim, OtherDomains>>
    /\ Logged("mouseUp")

\* onMouseMove: the pointer moved by d since lastPointerRef.
MouseMove ==
    /\ CanHandle
    /\ \E d \in MouseMoves, isNodeDragging \in BOOLEAN :
          IF isNodeDragging
          THEN /\ stage' = [stage EXCEPT !.isLeftPanning = FALSE]
               /\ UNCHANGED <<view, zoomAnimRef, raf, anim>>
          ELSE IF stage.isLeftPanning /\ d # Vec(Q(0), Q(0))
          THEN /\ SetPan(d)
               /\ anim' = Panned(d)
               /\ UNCHANGED stage
          ELSE UNCHANGED <<view, zoomAnimRef, raf, stage, anim>>
    /\ UNCHANGED OtherDomains
    /\ Logged("mouseMove")

\* onMouseLeave.
MouseLeave ==
    /\ CanHandle
    /\ stage' = [stage EXCEPT !.isLeftPanning = FALSE]
    /\ UNCHANGED <<view, zoomAnimRef, raf, anim, OtherDomains>>
    /\ Logged("mouseLeave")

\* onStageDragMove: Konva has moved the draggable Stage by d;
\* setPan({x: stage.x(), y: stage.y()}).
StageDragMove ==
    /\ CanHandle
    /\ stage.isSpaceDown \/ stage.isMiddlePanning
    /\ \E d \in StageDrags : SetPan(d) /\ anim' = Panned(d)
    /\ UNCHANGED <<stage, OtherDomains>>
    /\ Logged("stageDragMove")

\* The effect cleanup on unmount.
Unmount ==
    /\ stage.mounted
    /\ SetStage(cancelZoomAnim(StageNow))
    /\ anim' = Cancelled
    /\ stage' = [stage EXCEPT !.mounted = FALSE]
    /\ UNCHANGED OtherDomains
    /\ Logged("unmount")

\* The browser runs a pending frame callback, later than its last run.
AnimationFrame ==
    /\ \E cb \in raf.pending :
          \E t \in {p \in FrameProgress : QLt(cb.ran, p)} :
              /\ SetStage(step(StageNow, cb, t))
              /\ stageLog' = [stageLog EXCEPT
                     !.event = IF QLt(t, Q(1)) THEN "frame" ELSE "finalFrame",
                     !.frameGen = cb.gen]
              /\ anim' = IF QLt(t, Q(1)) \/ cb.gen # anim.gen THEN anim
                         ELSE [anim EXCEPT !.status = "finished"]
    /\ UNCHANGED <<stage, OtherDomains>>

NextStage ==
    \/ ZoomKey
    \/ ResetKey
    \/ FitKey
    \/ WheelZoom
    \/ WheelPan
    \/ ArrowKey
    \/ SpaceKey
    \/ MouseDown
    \/ MouseUp
    \/ MouseMove
    \/ MouseLeave
    \/ StageDragMove
    \/ Unmount
    \/ AnimationFrame

SpecStage == InitStage /\ [][NextStage]_vars

\* requestAnimationFrame callbacks are run: a pending frame does not wait
\* for ever.
SpecStageFair == SpecStage /\ WF_vars(AnimationFrame)

-----------------------------------------------------------------------------
(* Claims about getSeatPositions, checked under SpecSeat.                  *)

Returned == seatCall = "returned"

\* Seat i's position with the table's rotation undone (rect and square).
Unrotated(i) == rotatePoint(seats[i].position, 360 - table.rotation)

HalfW == Frac(table.size.width, 2)
HalfH == Frac(table.size.height, 2)
OutX == QAdd(HalfW, Q(offset))
OutY == QAdd(HalfH, Q(offset))

OnTopEdge(i) == Unrotated(i).y = QNeg(OutY) /\ QLe(QAbs(Unrotated(i).x), HalfW)
OnBottomEdge(i) == Unrotated(i).y = OutY /\ QLe(QAbs(Unrotated(i).x), HalfW)
OnLeftEdge(i) == Unrotated(i).x = QNeg(OutX) /\ QLe(QAbs(Unrotated(i).y), HalfH)
OnRightEdge(i) == Unrotated(i).x = OutX /\ QLe(QAbs(Unrotated(i).y), HalfH)

SeatIdx == 1..Len(seats)

\* C1: for every table of shape round, rect or square, seatCount in 1..20,
\* every size and rotation and every seatConfig (absent, or cornerSeats in
\* 0..4), getSeatPositions returns exactly seatCount seat placements.
C1_LengthIsSeatCount ==
    (Returned /\ table.shape \in Shapes) => Len(seats) = table.seatCount

C1_Witness ==
    /\ Returned
    /\ table.shape = "rect"
    /\ table.seatCount = MaxSeats
    /\ table.seatConfig = 3
    /\ Len(seats) = MaxSeats

\* C2: in the returned list the seat at 0-based index i carries seatNumber
\* i + 1, so the numbers are exactly 1..seatCount without gaps or repeats,
\* for every shape and for both rectangular policies.
C2_NumberedInOrder ==
    (Returned /\ table.shape \in Shapes) =>
        /\ \A k \in SeatIdx : seats[k].seatNumber = k
        /\ {seats[k].seatNumber : k \in SeatIdx} = 1..table.seatCount

C2_Witness ==
    /\ Returned
    /\ table.shape = "rect"
    /\ table.seatCount = 9
    /\ table.seatConfig = 4
    /\ table.size.width < table.size.height
    /\ seats[9].seatNumber = 9

\* C3 (as claimed): a rect table whose seatConfig is absent gets the
\* perimeter fallback for every seatCount in 1..20, seatCount > 4 included.
C3_AbsentConfigUsesPerimeter ==
    (Returned /\ table.shape = "rect" /\ table.seatConfig = Undefined) =>
        seats = distributeSeatsAroundPerimeter(table.seatCount, table.size, table.rotation)

-----------------------------------------------------------------------------
(* Claims about the transform engine, checked under SpecView.              *)

ProducesTransform == {"calculateFitTransform", "calculateZoomAtPoint", "lerpTransform"}

\* C5 (as claimed): every operation that produces a ViewTransform returns a
\* zoom in [0.1, 8], for every input and every interpolation parameter t.
C5_EveryProducedZoomInRange ==
    viewOp \in ProducesTransform => ZoomInRange(viewOut.zoom)

\* C5 (amended): calculateFitTransform and calculateZoomAtPoint return a zoom
\* in [0.1, 8] for every input; lerpTransform does not clamp, and returns a
\* zoom in [0.1, 8] when both transforms' zooms are in range and 0 <= t <= 1.
C5_ClampingOpsAndBoundedLerp ==
    /\ viewOp \in {"calculateFitTransform", "calculateZoomAtPoint"} =>
           ZoomInRange(viewOut.zoom)
    /\ (/\ viewOp = "lerpTransform"
        /\ ZoomInRange(view.zoom)
        /\ ZoomInRange(viewArg.b.zoom)
        /\ QLe(Q(0), viewArg.t)
        /\ QLe(viewArg.t, Q(1))) => ZoomInRange(viewOut.zoom)

C5_Witness ==
    /\ viewOp = "calculateZoomAtPoint"
    /\ viewArg.newZoom = Q(10)
    /\ view.zoom = Q(2)
    /\ viewOut.zoom = MaxZoom

\* C6: for every transform t with non-zero zoom, screen point p and requested
\* zoom z, t' = calculateZoomAtPoint(t, p, z) keeps the anchor fixed: the
\* world point under p before the zoom is mapped back to p by t'.
C6_AnchorStaysFixed ==
    viewOp = "calculateZoomAtPoint" =>
        worldToScreen(screenToWorld(viewArg.zoomPoint, view), viewOut) = viewArg.zoomPoint

C6_Witness ==
    /\ viewOp = "calculateZoomAtPoint"
    /\ viewOut.zoom # view.zoom
    /\ viewOut.pan # view.pan
    /\ viewArg.zoomPoint = Vec(Q(130), Q(260))
    /\ view.pan = Vec(Q(70), Q(-70))

\* C7: calculateZoomAtPoint is a no-op when the clamped requested zoom equals
\* the current zoom (the input is returned, zoom and pan unchanged); so
\* applying it to its own result with the same z and any anchor changes nothing.
C7_NoOpAtSameZoom ==
    viewOp = "calculateZoomAtPoint" =>
        /\ clamp(viewArg.newZoom, MinZoom, MaxZoom) = view.zoom => viewOut = view
        /\ \A p \in Points : calculateZoomAtPoint(viewOut, p, viewArg.newZoom) = viewOut

C7_Witness ==
    /\ viewOp = "calculateZoomAtPoint"
    /\ viewArg.newZoom = Q(10)
    /\ view.zoom = MaxZoom
    /\ view.pan = Vec(Q(70), Q(0))
    /\ viewOut = view

\* C8: for every transform with non-zero zoom and every point p,
\* worldToScreen(screenToWorld(p, t), t) = p and
\* screenToWorld(worldToScreen(p, t), t) = p.
C8_RoundTrip ==
    /\ viewOp = "screenToWorld" => worldToScreen(viewOut, view) = viewArg.point
    /\ viewOp = "worldToScreen" => screenToWorld(viewOut, view) = viewArg.point

C8_Witness ==
    /\ viewOp = "screenToWorld"
    /\ view.zoom = Frac(3, 2)
    /\ view.pan = Vec(Q(70), Q(-70))
    /\ viewArg.point = Vec(Q(130), Q(0))
    /\ viewOut = Vec(Q(40), Frac(140, 3))

\* The lines of one axis cover [lo, hi]: first and last are multiples of
\* gridSize at or beyond the two ends, consecutive lines gridSize apart.
Covers(lines, lo, hi) ==
    /\ Len(lines) >= 1
    /\ lines[1].at % GRID_SIZE = 0
    /\ QLe(Q(lines[1].at), lo)
    /\ lines[Len(lines)].at % GRID_SIZE = 0
    /\ QLe(hi, Q(lines[Len(lines)].at))
    /\ \A k \in 1..(Len(lines) - 1) : lines[k + 1].at - lines[k].at = GRID_SIZE

\* The grid lines a range [lo, hi] spans, first and last included.
LinesSpanned(lo, hi) ==
    QCeil(QDiv(hi, Q(GRID_SIZE))) - QFloor(QDiv(lo, Q(GRID_SIZE))) + 1

GridCall == viewOp = "getVisibleGridLines" /\ ZoomInRange(view.zoom)

\* C9 (as claimed): for every viewport and every transform with zoom in
\* [0.1, 8] the returned lines cover the visible world bounds on each axis.
C9_GridCoversBounds ==
    GridCall =>
        /\ Covers(viewOut.verticals, viewOut.worldBounds.min.x, viewOut.worldBounds.max.x)
        /\ Covers(viewOut.horizontals, viewOut.worldBounds.min.y, viewOut.worldBounds.max.y)

\* C9 (amended): the lines of an axis cover the visible world bounds when the
\* bounds span at most 400 grid lines on that axis; when they span more,
\* exactly 400 lines are returned, gridSize apart from the first one, and the
\* last one lies below worldBounds.max.
CoversOrCapped(lines, lo, hi) ==
    IF LinesSpanned(lo, hi) <= maxLines
    THEN Covers(lines, lo, hi)
    ELSE /\ Len(lines) = maxLines
         /\ lines[1].at % GRID_SIZE = 0
         /\ QLe(Q(lines[1].at), lo)
         /\ \A k \in 1..(Len(lines) - 1) : lines[k + 1].at - lines[k].at = GRID_SIZE
         /\ QLt(Q(lines[Len(lines)].at), hi)

C9_GridCoversBoundsUpToCap ==
    GridCall =>
        /\ CoversOrCapped(viewOut.verticals, viewOut.worldBounds.min.x,
                          viewOut.worldBounds.max.x)
        /\ CoversOrCapped(viewOut.horizontals, viewOut.worldBounds.min.y,
                          viewOut.worldBounds.max.y)

C9_Witness ==
    /\ GridCall
    /\ view.zoom = Frac(3, 2)
    /\ view.pan = Vec(Q(70), Q(-70))
    /\ viewArg.viewport.width = 400
    /\ Len(viewOut.verticals) = 15
    /\ viewOut.verticals[1].at = -60
    /\ viewOut.verticals[15].at = 220

\* C10: getVisibleGridLines returns at most 400 vertical and at most 400
\* horizontal lines for every viewport, pan and positive zoom however small;
\* a range that needs more lines ends the enumeration early.
C10_AtMostMaxLines ==
    viewOp = "getVisibleGridLines" =>
        /\ Len(viewOut.verticals) <= maxLines
        /\ Len(viewOut.horizontals) <= maxLines

C10_Witness ==
    /\ viewOp = "getVisibleGridLines"
    /\ view.zoom = Frac(1, 100)
    /\ viewArg.viewport.width = 800
    /\ Len(viewOut.verticals) = maxLines
    /\ LinesSpanned(viewOut.worldBounds.min.x, viewOut.worldBounds.max.x) > maxLines
    /\ QLt(Q(viewOut.verticals[maxLines].at), viewOut.worldBounds.max.x)

FitCall == viewOp = "calculateFitTransform"
FitWidth == QSub(viewArg.bounds.max.x, viewArg.bounds.min.x)
FitHeight == QSub(viewArg.bounds.max.y, viewArg.bounds.min.y)
FitProper == FitCall /\ QLt(Q(0), FitWidth) /\ QLt(Q(0), FitHeight)

\* The bounds centre is shown at the viewport centre.
FitCentred ==
    worldToScreen(Vec(QDiv(QAdd(viewArg.bounds.min.x, viewArg.bounds.max.x), Q(2)),
                      QDiv(QAdd(viewArg.bounds.min.y, viewArg.bounds.max.y), Q(2))),
                  viewOut)
        = Vec(Frac(viewArg.viewport.width, 2), Frac(viewArg.viewport.height, 2))

\* A screen point lies in [padding, width - padding] x [padding, height - padding].
InsidePadded(p) ==
    /\ QLe(Q(viewArg.padding), p.x)
    /\ QLe(p.x, Q(viewArg.viewport.width - viewArg.padding))
    /\ QLe(Q(viewArg.padding), p.y)
    /\ QLe(p.y, Q(viewArg.viewport.height - viewArg.padding))

FitInside ==
    /\ InsidePadded(worldToScreen(viewArg.bounds.min, viewOut))
    /\ InsidePadded(worldToScreen(viewArg.bounds.max, viewOut))

\* The scale that fits exactly, before it is clamped.
FitScale ==
    QMin(QDiv(Q(viewArg.viewport.width - viewArg.padding * 2), FitWidth),
         QDiv(Q(viewArg.viewport.height - viewArg.padding * 2), FitHeight))

\* C11 (as claimed): for every bounds of positive width and height, every
\* viewport and every padding, the fit transform maps the bounds centre to
\* the viewport centre and both bounds corners into the padded viewport.
C11_FitCentresAndFits ==
    FitProper => FitCentred /\ FitInside

\* C11 (amended): for every bounds of positive width and height the fit
\* transform maps the bounds centre to the viewport centre; both corners map
\* into the padded viewport when the exactly fitting scale is at least the
\* minimum zoom 0.1 (a smaller scale is raised to 0.1 and the bounds overflow).
C11_FitCentresAndFitsUnlessRaised ==
    FitProper =>
        /\ FitCentred
        /\ QLe(MinZoom, FitScale) => FitInside

C11_Witness ==
    /\ FitCall
    /\ viewArg.bounds = [min |-> Vec(Q(-50), Q(20)), max |-> Vec(Q(150), Q(40))]
    /\ viewArg.viewport = [width |-> 800, height |-> 600]
    /\ viewArg.padding = DefaultPadding
    /\ viewOut = [zoom |-> Frac(19, 5), pan |-> Vec(Q(210), Q(186))]
    /\ worldToScreen(viewArg.bounds.min, viewOut) = Vec(Q(20), Q(262))
    /\ worldToScreen(viewArg.bounds.max, viewOut) = Vec(Q(780), Q(338))

\* C12: calculateFitTransform returns the identity transform (zoom 1, pan
\* (0,0)) whenever the bounds width is <= 0 or the bounds height is <= 0, for
\* every viewport and padding; it has no failing outcome.
C12_IdentityOnDegenerateBounds ==
    (FitCall /\ (QLe(FitWidth, Q(0)) \/ QLe(FitHeight, Q(0)))) =>
        viewOut = [zoom |-> Q(1), pan |-> Vec(Q(0), Q(0))]

C12_Witness ==
    /\ FitCall
    /\ QLt(FitWidth, Q(0))
    /\ QLt(Q(0), FitHeight)
    /\ viewArg.viewport = [width |-> 400, height |-> 300]
    /\ viewArg.padding = 250
    /\ viewOut = [zoom |-> Q(1), pan |-> Vec(Q(0), Q(0))]

-----------------------------------------------------------------------------
(* Further claims about the seat geometry, checked under SpecSeat.         *)

\* The point p lies on the circle of radius r about the table centre, at the
\* angle deg (degrees, a rational) from the positive x axis.
OnCircleAt(p, r, deg) ==
    IF "r" \in DOMAIN p
    THEN /\ p.r = r
         /\ p.deg[2] = deg[2]
         /\ (p.deg[1] - deg[1]) % (360 * deg[2]) = 0
    ELSE /\ QAdd(QMul(p.x, p.x), QMul(p.y, p.y)) = QMul(r, r)
         /\ deg[2] = 1
         /\ CASE deg[1] % 360 = 0 -> p.y = Q(0) /\ QLt(Q(0), p.x)
              [] deg[1] % 360 = 90 -> p.x = Q(0) /\ QLt(Q(0), p.y)
              [] deg[1] % 360 = 180 -> p.y = Q(0) /\ QLt(p.x, Q(0))
              [] deg[1] % 360 = 270 -> p.x = Q(0) /\ QLt(p.y, Q(0))
              [] OTHER -> FALSE

\* C13: for a round table, seat i (0-based) lies on the circle of radius
\* size.width/2 + 30 at angle i * (360 / seatCount) + rotation degrees, faces
\* that angle plus 90 degrees and carries number i + 1; width 100 with 4
\* seats and rotation 0 gives seats 1..4 at (80,0), (0,80), (-80,0), (0,-80).
C13_RoundSeatsOnCircle ==
    (Returned /\ table.shape = "round") =>
        /\ \A k \in SeatIdx :
              LET seatAngle == QAdd(Frac((k - 1) * 360, table.seatCount),
                                    Q(table.rotation))
              IN  /\ OnCircleAt(seats[k].position, QAdd(HalfW, Q(30)), seatAngle)
                  /\ seats[k].angle = QAdd(seatAngle, Q(90))
                  /\ seats[k].seatNumber = k
        /\ (table.size.width = 100 /\ table.seatCount = 4 /\ table.rotation = 0) =>
              [k \in SeatIdx |-> seats[k].position]
                  = << Vec(Q(80), Q(0)), Vec(Q(0), Q(80)),
                       Vec(Q(-80), Q(0)), Vec(Q(0), Q(-80)) >>

C13_Witness ==
    /\ Returned
    /\ table.shape = "round"
    /\ table.size.width = 100
    /\ table.seatCount = 4
    /\ table.rotation = 0
    /\ Len(seats) = 4
    /\ seats[2] = Seat(Vec(Q(0), Q(80)), Q(180), 2)
    /\ seats[4] = Seat(Vec(Q(0), Q(-80)), Q(360), 4)

\* The point p turned by d degrees (a multiple of 90) about the table centre:
\* x' = x cos d - y sin d, y' = x sin d + y cos d.
Turned(p, d) ==
    IF "r" \in DOMAIN p
    THEN [r |-> p.r, deg |-> Frac((p.deg[1] + d * p.deg[2]) % (360 * p.deg[2]), p.deg[2])]
    ELSE CASE d = 0 -> p
           [] d = 90 -> Vec(QNeg(p.y), p.x)
           [] d = 180 -> Vec(QNeg(p.x), QNeg(p.y))
           [] d = 270 -> Vec(p.y, QNeg(p.x))

\* The squared distance of p from the table centre.
DistSq(p) ==
    IF "r" \in DOMAIN p THEN QMul(p.r, p.r)
    ELSE QAdd(QMul(p.x, p.x), QMul(p.y, p.y))

\* The layout of the same table at rotation 0.
AtRotationZero == getSeatPositions([table EXCEPT !.rotation = 0]).value

\* C14: rotation is a rigid rotation of the whole layout: for every table and
\* rotation d, seat k's position is its rotation-0 position turned by d and
\* its facing angle is its rotation-0 angle plus d; so each seat's distance
\* from the table centre and the numbering do not depend on the rotation.
C14_RotationIsRigid ==
    (Returned /\ table.shape \in Shapes) =>
        LET base == AtRotationZero
        IN  /\ Len(seats) = Len(base)
            /\ \A k \in SeatIdx :
                  /\ seats[k].position = Turned(base[k].position, table.rotation)
                  /\ seats[k].angle = QAdd(base[k].angle, Q(table.rotation))
                  /\ DistSq(seats[k].position) = DistSq(base[k].position)
                  /\ seats[k].seatNumber = base[k].seatNumber

C14_Witness ==
    /\ Returned
    /\ table.shape = "rect"
    /\ table.size = [width |-> 100, height |-> 80]
    /\ table.seatCount = 6
    /\ table.seatConfig = 2
    /\ table.rotation = 90
    /\ seats[1] = Seat(Vec(Q(0), Q(80)), Q(270), 1)
    /\ seats[3] = Seat(Vec(Q(70), Q(-50)), Q(180), 3)
    /\ AtRotationZero[1] = Seat(Vec(Q(80), Q(0)), Q(180), 1)
    /\ AtRotationZero[3] = Seat(Vec(Q(-50), Q(-70)), Q(90), 3)

\* The seats side k of a square table receives, k = 0 (top), 1 (right),
\* 2 (bottom), 3 (left), as claimed.
SquareSideCount(n, k) == (n \div 4) + (IF k < n % 4 THEN 1 ELSE 0)

\* The number of seats on the sides before side k.
SquareSideStart(n, k) ==
    IF k = 0 THEN 0
    ELSE IF k = 1 THEN SquareSideCount(n, 0)
    ELSE IF k = 2 THEN SquareSideCount(n, 0) + SquareSideCount(n, 1)
    ELSE SquareSideCount(n, 0) + SquareSideCount(n, 1) + SquareSideCount(n, 2)

\* Seat i lies along side k of the square of side size.width, 30 outside it.
OnSquareSide(i, k) ==
    LET p == Unrotated(i)
    IN  CASE k = 0 -> p.y = QNeg(OutX) /\ QLe(QAbs(p.x), HalfW)
          [] k = 1 -> p.x = OutX /\ QLe(QAbs(p.y), HalfW)
          [] k = 2 -> p.y = OutX /\ QLe(QAbs(p.x), HalfW)
          [] k = 3 -> p.x = QNeg(OutX) /\ QLe(QAbs(p.y), HalfW)

\* C15: for a square table with n seats, side k in the order top, right,
\* bottom, left receives floor(n/4) + (1 if k < n mod 4 else 0) seats and the
\* seats are numbered side by side in that order; n = 8 gives 2 seats on
\* every side and n = 6 gives 2, 2, 1, 1.
C15_SquareSideDistribution ==
    (Returned /\ table.shape = "square") =>
        LET n == table.seatCount
        IN  /\ \A k \in 0..3 :
                  /\ Cardinality({i \in SeatIdx : OnSquareSide(i, k)})
                         = SquareSideCount(n, k)
                  /\ \A i \in SeatIdx :
                         OnSquareSide(i, k) <=>
                             /\ SquareSideStart(n, k) < seats[i].seatNumber
                             /\ seats[i].seatNumber
                                    <= SquareSideStart(n, k) + SquareSideCount(n, k)
            /\ n = 8 => \A k \in 0..3 :
                  Cardinality({i \in SeatIdx : OnSquareSide(i, k)}) = 2
            /\ n = 6 =>
                  [k \in 0..3 |-> Cardinality({i \in SeatIdx : OnSquareSide(i, k)})]
                      = [k \in 0..3 |-> IF k < 2 THEN 2 ELSE 1]

C15_Witness ==
    /\ Returned
    /\ table.shape = "square"
    /\ table.size.width = 100
    /\ table.seatCount = 6
    /\ table.rotation = 0
    /\ [k \in SeatIdx |-> seats[k].position]
           = << Vec(Q(-50), Q(-80)), Vec(Q(50), Q(-80)),
                Vec(Q(80), Q(-50)), Vec(Q(80), Q(50)),
                Vec(Q(0), Q(80)), Vec(Q(-80), Q(0)) >>

\* C16 (as claimed): all seats returned for one table have pairwise distinct
\* positions, for every shape, seatCount in 1..20 and cornerSeats in 0..4.
C16_PairwiseDistinctPositions ==
    (Returned /\ table.shape \in Shapes /\ table.seatConfig \in 0..4) =>
        \A i, j \in SeatIdx : i # j => seats[i].position # seats[j].position

\* C17: getTableBounds returns the componentwise min and max of the four
\* corners of the width x height rectangle turned by rotation about the table
\* centre and moved by position, whatever the shape: at rotation 0 (and 180)
\* the box is position -/+ (width/2, height/2), at rotation 90 (and 270) it is
\* position -/+ (height/2, width/2); min <= max componentwise and the box is
\* centred on position.
C17_TableBoundsBox ==
    seatCall = "bounds" =>
        LET pos == table.position
            half == IF table.rotation \in {0, 180}
                    THEN Vec(HalfW, HalfH) ELSE Vec(HalfH, HalfW)
        IN  /\ tableBounds.min = Vec(QSub(pos.x, half.x), QSub(pos.y, half.y))
            /\ tableBounds.max = Vec(QAdd(pos.x, half.x), QAdd(pos.y, half.y))
            /\ QLe(tableBounds.min.x, tableBounds.max.x)
            /\ QLe(tableBounds.min.y, tableBounds.max.y)
            /\ QAdd(tableBounds.min.x, tableBounds.max.x) = QMul(Q(2), pos.x)
            /\ QAdd(tableBounds.min.y, tableBounds.max.y) = QMul(Q(2), pos.y)

C17_Witness ==
    /\ seatCall = "bounds"
    /\ table.shape = "round"
    /\ table.size = [width |-> 100, height |-> 80]
    /\ table.rotation = 90
    /\ table.position = Vec(Q(130), Q(-70))
    /\ tableBounds = [min |-> Vec(Q(90), Q(-120)), max |-> Vec(Q(170), Q(-20))]

\* C19: getSeatPositions called with a shape outside {round, rect, square}
\* fails with the unsupported-shape error and returns no seat list; it never
\* falls back to one of the three layouts.
C19_UnsupportedShapeThrows ==
    (seatCall \in {"returned", "threw"} /\ table.shape \notin Shapes) =>
        seatCall = "threw" /\ seats = <<>>

C19_Witness ==
    /\ table.shape = "hexagon"
    /\ table.seatCount = 8
    /\ seatCall = "threw"
    /\ seats = <<>>

-----------------------------------------------------------------------------
(* Claims about snapping, checked under SpecView.                          *)

SnapCall == viewOp \in {"snapToGrid", "snapPoint"}

\* The grid size a snapping call used: the default 20 when left out.
SnapGrid == IF viewArg.gridSize = NoGridSize THEN Q(20) ELSE viewArg.gridSize

\* The coordinate out is a multiple of g at distance at most g/2 from in.
SnappedFrom(out, in, g) ==
    /\ QDiv(out, g)[2] = 1
    /\ QLe(QMul(Q(2), QAbs(QSub(out, in))), g)

\* C18: snapToGrid (and its twin snapPoint) lands on the grid and is
\* idempotent: for every point p and grid size g > 0 each coordinate of the
\* result is a multiple of g at distance at most g/2 from the input
\* coordinate, and snapping the result again returns it; with the default
\* grid 20, (17, 23) snaps to (20, 20).
C18_SnapLandsOnGridAndIsIdempotent ==
    SnapCall =>
        /\ SnappedFrom(viewOut.x, viewArg.point.x, SnapGrid)
        /\ SnappedFrom(viewOut.y, viewArg.point.y, SnapGrid)
        /\ viewOp = "snapToGrid" => snapToGrid(viewOut, viewArg.gridSize) = viewOut
        /\ viewOp = "snapPoint" => snapPoint(viewOut, viewArg.gridSize) = viewOut
        /\ (viewArg.point = Vec(Q(17), Q(23)) /\ viewArg.gridSize = NoGridSize) =>
               viewOut = Vec(Q(20), Q(20))

C18_Witness ==
    /\ viewOp = "snapToGrid"
    /\ viewArg.point = Vec(Q(17), Q(23))
    /\ viewArg.gridSize = NoGridSize
    /\ viewOut = Vec(Q(20), Q(20))
    /\ snapToGrid(viewOut, NoGridSize) = viewOut

-----------------------------------------------------------------------------
(* Claims about the plan store, checked under SpecPlan.                    *)

\* The list after is the list before with exactly the entries that Hit
\* removed: no entry of after is hit, and every entry of before that is not
\* hit is found in after, unchanged, moved up by the hits in front of it.
RemovedExactly(before, after, Hit(_)) ==
    /\ \A k \in 1..Len(after) : ~Hit(after[k])
    /\ Len(after) = Cardinality({k \in 1..Len(before) : ~Hit(before[k])})
    /\ \A k \in 1..Len(before) :
          ~Hit(before[k]) =>
              after[k - Cardinality({j \in 1..(k - 1) : Hit(before[j])})] = before[k]

\* C20: deleteTable(id) removes exactly the table with that id from tables
\* and removes id from selectedTableIds, leaving every other table and every
\* other selected id unchanged and in the same order; when no table has that
\* id the table list is unchanged.
C20_DeleteTableFrame ==
    [][planCall'.op = "deleteTable" =>
          LET id == planCall'.id
              HasId(t) == t.id = id
              IsId(selectedId) == selectedId = id
          IN  /\ RemovedExactly(tables, tables', HasId)
              /\ Len(tables') >= Len(tables) - 1
              /\ RemovedExactly(selectedTableIds, selectedTableIds', IsId)
              /\ (\A k \in 1..Len(tables) : tables[k].id # id) => tables' = tables
      ]_vars

C20_Witness ==
    /\ planCall = [op |-> "deleteTable", id |-> 2]
    /\ idsIssued = 3
    /\ Len(tables) = 2
    /\ tables[1].id = 1
    /\ tables[1].name = <<"Head">>
    /\ tables[2].id = 3
    /\ tables[2].name = <<"Table ", "3">>
    /\ selectedTableIds = <<1, 3>>

\* A digit string without its leading zeros.
RECURSIVE StripZeros(_)
StripZeros(digits) ==
    IF Len(digits) > 1 /\ Head(digits) = "0" THEN StripZeros(Tail(digits))
    ELSE digits

\* The name reads "Table k": the word, a space and the decimal digits of k
\* (leading zeros allowed), nothing else.
NamedTable(name, k) ==
    /\ Len(name) >= 2
    /\ name[1] = "Table "
    /\ \A j \in 2..Len(name) : name[j] \in {Digits[d] : d \in 1..10}
    /\ StripZeros(Tail(name)) = ToDigits(k)

\* The largest k >= 1 for which a table of ts is named "Table k"; 0 if none.
LargestTableNumber(ts) ==
    LET ks == {k \in 1..99 : \E i \in 1..Len(ts) : NamedTable(ts[i].name, k)}
    IN  IF ks = {} THEN 0 ELSE CHOOSE k \in ks : \A other \in ks : other <= k

\* C21: after any sequence of addTable, deleteTable and updateTable (renames
\* included), the table addTable has just appended is named "Table N" with
\* N = 1 + the largest k for which a table already in the store is named
\* "Table k" (N = 1 when there is none), and its name differs from the name
\* of every table that was already in the store.
C21_NewNameIsNextNumber ==
    planCall.op = "addTable" =>
        LET existing == SubSeq(tables, 1, Len(tables) - 1)
            added == tables[Len(tables)]
        IN  /\ added.id = planCall.id
            /\ added.name = <<"Table ">> \o ToDigits(1 + LargestTableNumber(existing))
            /\ \A i \in 1..Len(existing) : existing[i].name # added.name

C21_Witness ==
    /\ planCall = [op |-> "addTable", id |-> 3]
    /\ Len(tables) = 2
    /\ tables[1].id = 2
    /\ tables[1].name = <<"Table ", "0", "7">>
    /\ tables[2].id = 3
    /\ tables[2].name = <<"Table ", "8">>

-----------------------------------------------------------------------------
(* Claims about the rectangular layouts, checked under SpecSeat.           *)

\* The rotation-0 position of the j-th pinned seat, in priority order.
PinnedPosition(j) ==
    IF table.size.width >= table.size.height
    THEN CASE j = 1 -> Vec(OutX, Q(0))
           [] j = 2 -> Vec(QNeg(OutX), Q(0))
           [] j = 3 -> Vec(HalfW, QNeg(OutY))
           [] OTHER -> Vec(QNeg(HalfW), QNeg(OutY))
    ELSE CASE j = 1 -> Vec(Q(0), QNeg(OutY))
           [] j = 2 -> Vec(Q(0), OutY)
           [] j = 3 -> Vec(QNeg(OutX), Q(0))
           [] OTHER -> Vec(OutX, Q(0))

CornerPriorityCall ==
    /\ Returned
    /\ table.shape = "rect"
    /\ table.seatCount > 4
    /\ table.seatConfig # Undefined

\* C22: in the corner-priority layout (rect, seatCount > 4, cornerSeats = c
\* defined) the k = min(c, seatCount, 4) pinned seats carry the numbers 1..k
\* in priority order (width >= height: right end, left end, top-right and
\* top-left corner; width < height: top end, bottom end, left, right); the
\* other seatCount - k seats carry the numbers k+1..seatCount, the first
\* ceil((seatCount-k)/2) of them on the first long edge (top, or left for
\* a tall table) and the last floor((seatCount-k)/2) on the opposite one.
C22_PinnedSeatsThenLongEdges ==
    CornerPriorityCall =>
        LET n == table.seatCount
            c == table.seatConfig
            k == IF c <= 4 THEN c ELSE 4
            firstN == (n - k + 1) \div 2
            wide == table.size.width >= table.size.height
        IN  /\ Len(seats) = n
            /\ \A j \in 1..k :
                   seats[j].seatNumber = j /\ Unrotated(j) = PinnedPosition(j)
            /\ \A j \in (k + 1)..(k + firstN) :
                   /\ seats[j].seatNumber = j
                   /\ IF wide THEN OnTopEdge(j) ELSE OnLeftEdge(j)
            /\ \A j \in (k + firstN + 1)..n :
                   /\ seats[j].seatNumber = j
                   /\ IF wide THEN OnBottomEdge(j) ELSE OnRightEdge(j)

C22_Witness ==
    /\ CornerPriorityCall
    /\ table.seatCount = 7
    /\ table.seatConfig = 3
    /\ table.size = [width |-> 80, height |-> 100]
    /\ table.rotation = 90
    /\ Unrotated(3) = Vec(Q(-70), Q(0))
    /\ OnLeftEdge(4) /\ OnLeftEdge(5)
    /\ OnRightEdge(6) /\ OnRightEdge(7)

\* Seat i is 30 outside one edge of the rectangle with half extents hw and
\* hh, within that edge's span, and faces the rectangle across that edge.
FacesInFromEdge(i, hw, hh) ==
    LET p == seats[i].position
        a == seats[i].angle
        outX == QAdd(hw, Q(offset))
        outY == QAdd(hh, Q(offset))
    IN  \/ p.y = QNeg(outY) /\ QLe(QAbs(p.x), hw) /\ a = Q(90)
        \/ p.x = outX /\ QLe(QAbs(p.y), hh) /\ a = Q(180)
        \/ p.y = outY /\ QLe(QAbs(p.x), hw) /\ a = Q(-90)
        \/ p.x = QNeg(outX) /\ QLe(QAbs(p.y), hh) /\ a = Q(0)

EdgedCallAtRotationZero ==
    /\ Returned
    /\ table.shape \in {"rect", "square"}
    /\ table.rotation = 0

\* C23 (as claimed): for every rect or square table at rotation 0, under
\* every policy, each returned seat lies exactly 30 outside one edge of the
\* width x height rectangle, within that edge's span, and faces inward
\* perpendicular to that edge (90 degrees on top, 180 on the right, -90 on
\* the bottom, 0 on the left).
C23_SeatsOutsideWidthByHeight ==
    EdgedCallAtRotationZero =>
        \A i \in SeatIdx : FacesInFromEdge(i, HalfW, HalfH)

\* C23 (amended): the same, where the rectangle is width x height for a
\* rect and width x width for a square, whose height is not read.
C23_SeatsOutsideLaidOutRectangle ==
    EdgedCallAtRotationZero =>
        \A i \in SeatIdx :
            FacesInFromEdge(i, HalfW, IF table.shape = "square" THEN HalfW ELSE HalfH)

C23_Witness ==
    /\ EdgedCallAtRotationZero
    /\ table.shape = "square"
    /\ table.size = [width |-> 80, height |-> 120]
    /\ table.seatCount = 6
    /\ seats[1] = Seat(Vec(Q(-40), Q(-70)), Q(90), 1)
    /\ seats[6] = Seat(Vec(Q(-70), Q(0)), Q(0), 6)

\* The point 30 outside the table outline at arc length d from the top-left
\* corner, clockwise; a corner belongs to the edge that ends there.
AtArcLength(d) ==
    LET w == Q(table.size.width)
        h == Q(table.size.height)
        starts == <<Q(0), w, QAdd(w, h), QAdd(QAdd(w, h), w)>>
        ends == <<w, QAdd(w, h), QAdd(QAdd(w, h), w), QMul(Q(2), QAdd(w, h))>>
        edge == IF d = Q(0) THEN 1
                ELSE CHOOSE e \in 1..4 : QLt(starts[e], d) /\ QLe(d, ends[e])
        along == QSub(d, starts[edge])
    IN  CASE edge = 1 -> Vec(QAdd(QNeg(HalfW), along), QNeg(OutY))
          [] edge = 2 -> Vec(OutX, QAdd(QNeg(HalfH), along))
          [] edge = 3 -> Vec(QSub(HalfW, along), OutY)
          [] OTHER -> Vec(QNeg(OutX), QSub(HalfH, along))

PerimeterFallbackCall ==
    /\ Returned
    /\ table.shape = "rect"
    /\ table.seatCount <= 4

\* C24: in the perimeter fallback (rect with seatCount <= 4) seat 1 is at
\* the top-left corner of the top edge, (-width/2, -height/2 - 30), and seat
\* i+1 is at arc length i * 2 * (width + height) / seatCount clockwise along
\* top, right, bottom, left; a seat whose arc length is exactly a corner is
\* on the edge that ends at that corner.
C24_PerimeterFallbackByArcLength ==
    PerimeterFallbackCall =>
        LET n == table.seatCount
            spacing == QDiv(QMul(Q(2), Q(table.size.width + table.size.height)), Q(n))
        IN  /\ Len(seats) = n
            /\ Unrotated(1) = Vec(QNeg(HalfW), QNeg(OutY))
            /\ \A i \in 0..(n - 1) :
                   Unrotated(i + 1) = AtArcLength(QMul(Q(i), spacing))

C24_Witness ==
    /\ PerimeterFallbackCall
    /\ table.seatCount = 4
    /\ table.size = [width |-> 80, height |-> 80]
    /\ table.rotation = 0
    /\ seats[1].position = Vec(Q(-40), Q(-70))
    /\ seats[2].position = Vec(Q(40), Q(-70))
    /\ seats[3].position = Vec(Q(70), Q(40))
    /\ seats[4].position = Vec(Q(-40), Q(70))

-----------------------------------------------------------------------------
(* Claims about rendering, checked under SpecSeat.                         *)

RenderedTurned ==
    /\ seatCall = "rendered"
    /\ table.rotation # 0
    /\ drawn # <<>>

\* C30: when TableNode renders a table with non-zero rotation, the rotation
\* is applied exactly once to each seat: a seat is drawn at table.position
\* plus its rotation-0 layout position turned by table.rotation, which is
\* table.position plus the position getSeatPositions(table) returned.
C30_RotationAppliedOnce ==
    RenderedTurned =>
        LET base == AtRotationZero
        IN  \A k \in 1..Len(drawn) :
               /\ drawn[k] = Translate(table.position, seats[k].position)
               /\ drawn[k] = Translate(table.position,
                                       Rotate(base[k].position, table.rotation))

-----------------------------------------------------------------------------
(* Claims about the selection, checked under SpecPlanSelectStored.         *)

\* Every selected id is the id of a table in the store.
SelectionStored == \A k \in 1..Len(selectedTableIds) : selectedTableIds[k] \in StoredIds

\* C29 (as claimed): when selectTable and selectTables are only ever called
\* with ids of tables in the store, every state reached by any sequence of
\* addTable, updateTable, deleteTable, selectTable, selectTables and
\* clearSelection has every selected id among the ids of the tables.
C29_SelectionRefersToTables == SelectionStored

\* C29 (amended): when selectTable and selectTables are only ever called
\* with ids of tables in the store, every store action that does not change
\* the id of a table keeps every selected id among the ids of the tables;
\* the store starts with nothing selected, so the selection refers to
\* tables as long as no updateTable has changed an id.
C29_SelectionKeptWhileIdsKept ==
    [][(/\ SelectionStored
        /\ planCall'.op = "updateTable" =>
               [k \in 1..Len(tables) |-> tables'[k].id]
                   = [k \in 1..Len(tables) |-> tables[k].id])
           => SelectionStored']_vars

C29_Witness ==
    /\ planCall = [op |-> "deleteTable", id |-> 2]
    /\ idsIssued = 3
    /\ [k \in 1..Len(tables) |-> tables[k].id] = <<1, 3>>
    /\ selectedTableIds = <<1, 3>>

-----------------------------------------------------------------------------
(* Claims about CanvasStage, checked under SpecStage and SpecStageFair.    *)

\* C25: starting from zoom 1, after any sequence of CanvasStage events
\* (ctrl/meta wheel zoom, + and - keys, zoom buttons, reset, fit, pans and
\* animation frames in any interleaving) the zoom in the view state is
\* within [0.1, 8].
C25_StageZoomInRange == ZoomInRange(view.zoom)

C25_Witness ==
    /\ stageLog.event = "frame"
    /\ anim.kind = "zoomAt"
    /\ anim.targetScale = MaxZoom
    /\ QLt(Q(1), view.zoom) /\ QLt(view.zoom, MaxZoom)

\* C26: at most one view-animation frame callback is pending at any time:
\* the pending callback is the one zoomAnimRef names and belongs to the
\* animation started last, which has not been cancelled; a frame that runs
\* belongs to that animation too, so a cancelled animation never writes
\* the view again.
C26_OnePendingFrame ==
    /\ Cardinality(raf.pending) <= 1
    /\ \A cb \in raf.pending :
           /\ cb.id = zoomAnimRef
           /\ cb.gen = anim.gen
           /\ anim.status = "running"
    /\ zoomAnimRef # Null => raf.pending # {}
    /\ stageLog.event \in {"frame", "finalFrame"} =>
           /\ stageLog.frameGen = anim.gen
           /\ anim.status \in {"running", "finished"}
    /\ anim.status = "cancelled" => raf.pending = {}

C26_Witness ==
    /\ stageLog = [event |-> "zoomKey", frameGen |-> 0, used |-> 2, cancels |-> 1]
    /\ anim.gen = 2
    /\ Cardinality(raf.pending) = 1
    /\ raf.issued = 3

\* C27: a view animation started by animateViewTo(targetScale, targetPos)
\* that is not cancelled eventually finishes; its last frame sets the view
\* to exactly zoom = clamp(targetScale, 0.1, 8) and pan = targetPos, no
\* further frame is scheduled and the pending-frame id is cleared; for
\* animateZoomAt the screen anchor maps to the same world point in every
\* frame the animation writes.
C27_AnimationFinishesAtTarget ==
    /\ [](stageLog.event = "finalFrame" =>
            /\ view = [zoom |-> clamp(anim.targetScale, MinZoom, MaxZoom),
                       pan |-> anim.targetPos]
            /\ raf.pending = {}
            /\ zoomAnimRef = Null
            /\ anim.status = "finished")
    /\ []((stageLog.event \in {"frame", "finalFrame"} /\ anim.kind = "zoomAt") =>
            screenToWorld(anim.center, view) = anim.anchorWorld)
    /\ (anim.status = "running") ~> (anim.status \in {"finished", "cancelled"})

C27_Witness ==
    /\ stageLog.event = "finalFrame"
    /\ anim.kind = "zoomAt"
    /\ anim.status = "finished"
    /\ view.zoom = Frac(11, 10)
    /\ raf.issued = 2

\* C28: a pan applied by an arrow key or a wheel pan while a zoom animation
\* is in flight is not lost: when the animation's last frame has run, the
\* view's pan is the animation's target moved by the pans applied meanwhile.
C28_PanDuringAnimationKept ==
    stageLog.event = "finalFrame" =>
        view.pan = Vec(QAdd(anim.targetPos.x, anim.panned.x),
                       QAdd(anim.targetPos.y, anim.panned.y))

=============================================================================
